---------------------------- MODULE Spec2Model ----------------------------
(***************************************************************************)
(* A model of the dagql selection resolver (src/dagql/server.go): the      *)
(* concurrent sibling fan-out of Server.Resolve, the per-selection         *)
(* algorithm of Server.resolvePath, ID extension (Selector.appendToID),    *)
(* materialisation (Server.toSelectable) and ID replay (Server.Load with   *)
(* Server.constructorToSelection and Server.fromLiteral).                  *)
(*                                                                         *)
(* Every goroutine started by pool.Go is a task with a program counter;    *)
(* every call of Resolve is a group of such tasks.  Groups and tasks are   *)
(* named by their path in the call tree: the outermost group is <<>>, the  *)
(* task of its i-th selection is <<i>>, the group that task starts for the *)
(* n-th list element is <<i, n>> (0 for an object-typed field).            *)
(***************************************************************************)
EXTENDS Integers, Sequences, FiniteSets, TLC

VARIABLES phase, sels, loadID, groups, tasks, ret, invoked, made, issued

\* the memoization cache of the server (Server.cache) and its callers
VARIABLES cache, callers, flights

\* the class map while classes are installed (Server.classes, Server.installLock)
VARIABLES registry, installLock, installers, readers

\* IDs as the pointers they are (*idproto.ID), their chains as slices, and the
\* calls of appendToID in flight
VARIABLES idHeap, arrays, extenders, returned

\* a call of fromLiteral: the literal, the type of the argument definition and
\* what the call returned
VARIABLES litIn, litType, litOut

\* the resolver: the calls of Resolve and Load in flight
serverVars == <<phase, sels, loadID, groups, tasks, ret, invoked, made, issued>>
cacheVars == <<cache, callers, flights>>
registryVars == <<registry, installLock, installers, readers>>
idVars == <<idHeap, arrays, extenders, returned>>
literalVars == <<litIn, litType, litOut>>

vars == <<serverVars, cacheVars, registryVars, idVars, literalVars>>

(***************************************************************************)
(* Bounds of the model.                                                    *)
(***************************************************************************)
\* length of the list the fixture field "items" returns
ListLen == 2
\* largest sibling group built freely from TopSels
MaxSiblings == 3
\* longest hand-made selector chain given to Load
MaxChain == 2
\* goroutines that call the memoization cache
MaxCallers == 3
\* resolutions in flight that look a class up while classes are installed
MaxReaders == 2
\* IDs allocated by the calls of appendToID
MaxIDs == 4
\* elements of a list literal
MaxLitLen == 2

(***************************************************************************)
(* Values.  Typed values are scalars, raw domain values, Objects           *)
(* (Instance: a raw value bound to an ID), Arrays (Enumerable) and         *)
(* Nullables; results additionally hold maps (map[string]any) and slices   *)
(* ([]any).                                                                *)
(***************************************************************************)
Nil == [kind |-> "nil"]
Scalar(t, v) == [kind |-> "scalar", type |-> t, v |-> v]
Raw(t, p) == [kind |-> "raw", type |-> t, p |-> p]
Obj(t, id, s) == [kind |-> "obj", type |-> t, id |-> id, self |-> s]
Arr(t, es) == [kind |-> "array", type |-> t, elems |-> es]
Opt(ok, v) == [kind |-> "nullable", ok |-> ok, val |-> v]
Map(m) == [kind |-> "map", m |-> m]
Slice(es) == [kind |-> "slice", elems |-> es]

\* val.(Typed): every value a field returns except the nil interface
IsTyped(v) == v.kind \in {"scalar", "raw", "obj", "array", "nullable"}
\* val.(Object)
IsObject(v) == v.kind = "obj"
\* val.(Enumerable): Array has Len and Nth; a []any of results has neither
IsEnumerable(v) == v.kind = "array"
\* val.(Nullable)
IsNullable(v) == v.kind = "nullable"

\* ast.Type: a named type, or a list of Elem ("" stands for a nil Elem)
T(named, elem) == [NamedType |-> named, Elem |-> elem]
\* ast.Type.Name(): the named type, else the element's name
TypeName(t) == IF t.NamedType # "" THEN t.NamedType ELSE t.Elem

(***************************************************************************)
(* Errors.  An error is the sequence of the leaf errors it wraps, each     *)
(* with the chain of prefixes put before it by fmt.Errorf("%s: %w").       *)
(* errors.Join (what pool.Wait returns) concatenates.                      *)
(***************************************************************************)
NoErr == <<>>
Err(msg) == << [path |-> <<>>, msg |-> msg] >>
Wrap(name, e) == [i \in DOMAIN e |-> [path |-> <<name>> \o e[i].path, msg |-> e[i].msg]]

RECURSIVE Join(_)
Join(es) == IF es = <<>> THEN NoErr ELSE Head(es) \o Join(Tail(es))

Ok(v) == [ok |-> TRUE, val |-> v, err |-> NoErr]
Fail(e) == [ok |-> FALSE, val |-> Nil, err |-> e]

(***************************************************************************)
(* Paths in the call tree.                                                 *)
(***************************************************************************)
Parent(p) == SubSeq(p, 1, Len(p) - 1)
Last(p) == p[Len(p)]
TasksOf(g) == {t \in DOMAIN tasks : Len(t) = Len(g) + 1 /\ Parent(t) = g}

(***************************************************************************)
(* IDs (idproto.ID): a chain of selectors and the declared type.           *)
(***************************************************************************)
IDSelector(field, args, nth, tainted, meta) ==
    [Field |-> field, Args |-> args, Nth |-> nth, Tainted |-> tainted, Meta |-> meta]
ID(chain, type) == [Constructor |-> chain, Type |-> type]
\* idproto.New(root.Type()): the root's ID has the empty chain
RootID == ID(<<>>, T("Query", ""))
\* ID.Nth(n): the ID of the n-th element of the list the ID names
IDNth(id, n) ==
    LET c == id.Constructor
    IN  ID([c EXCEPT ![Len(c)].Nth = n], T(id.Type.Elem, ""))

\* Literals (idproto.Literal)
Lit(k, v) == [lit |-> k, v |-> v]
\* ToLiteral: the wire literal of an argument value
ToLiteral(val) ==
    CASE val.kind = "scalar" /\ val.type = "Int" -> Lit("Int", val.v)
      [] val.kind = "scalar" /\ val.type = "String" -> Lit("String_", val.v)
      [] val.kind = "scalar" /\ val.type = "Boolean" -> Lit("Bool", val.v)
      [] val.kind = "scalar" /\ val.type = "Float" -> Lit("Float", val.v)
      [] val.kind = "obj" -> Lit("Id", val.id)
      [] OTHER -> Lit("Object", 0)


(***************************************************************************)
(* The server under test: the root class Query and one domain class Item   *)
(* are registered; the scalars are the four built-in ones.  The domain     *)
(* fields are deterministic, so that a replay of an ID meets the same      *)
(* values.                                                                 *)
(***************************************************************************)
\* keys of s.classes
Classes == {"Query", "Item"}
\* keys of s.scalars
Scalars == {"Boolean", "Int", "Float", "String"}

\* ast.FieldDefinition: return type, argument schema (name -> type), directives
FD(type, arguments, directives) ==
    [Type |-> type, Arguments |-> arguments, Directives |-> directives]
NoArgs == <<>>
NoField == [Type |-> T("", ""), Arguments |-> NoArgs, Directives |-> {"undefined"}]

Schema ==
    [Query |->
        [hello  |-> FD(T("String", ""), [name |-> T("String", "")], {"meta"}),
         pick   |-> FD(T("Item", ""), [a |-> T("Int", ""), b |-> T("Int", "")], {"meta"}),
         boom   |-> FD(T("String", ""), NoArgs, {}),
         item   |-> FD(T("Item", ""), NoArgs, {}),
         items  |-> FD(T("", "Item"), NoArgs, {}),
         none   |-> FD(T("", "Item"), NoArgs, {}),
         maybe  |-> FD(T("Item", ""), NoArgs, {}),
         some   |-> FD(T("Item", ""), NoArgs, {"tainted"}),
         loaded |-> FD(T("Item", ""), NoArgs, {}),
         ghost  |-> FD(T("Ghost", ""), NoArgs, {}),
         alien  |-> FD(T("Ghost", ""), NoArgs, {}),
         bogus  |-> FD(T("", "Item"), NoArgs, {}),
         tags   |-> FD(T("", "Int"), NoArgs, {})],
     Item |->
        [name   |-> FD(T("String", ""), NoArgs, {}),
         child  |-> FD(T("Item", ""), NoArgs, {}),
         boom   |-> FD(T("String", ""), NoArgs, {})]]

\* class.FieldDefinition(name)
FieldDefinition(class, field) ==
    IF field \in DOMAIN Schema[class] THEN Schema[class][field] ELSE NoField

\* the root object: Instance{Constructor: idproto.New(root.Type()), Self: root}
Root == Obj("Query", RootID, Raw("Query", 0))

ArgV(args, n) == IF n \in DOMAIN args /\ args[n].kind = "scalar" THEN args[n].v ELSE 0

\* the object the field "loaded" hands back: already an Object, with its own ID
LoadedObject ==
    Obj("Item", ID(<<IDSelector("item", <<>>, 0, FALSE, FALSE)>>, T("Item", "")), Raw("Item", 1))

\* the object the field "alien" hands back: an Object of a type no class is
\* registered for
AlienObject ==
    Obj("Ghost", ID(<<IDSelector("ghost", <<>>, 0, FALSE, FALSE)>>, T("Ghost", "")), Raw("Ghost", 0))

\* self.Select(ctx, sel.Selector): the domain's field implementations
Select(self, sel) ==
    LET f == sel.Field
        p == IF self.self.kind = "raw" THEN self.self.p ELSE 0
    IN  CASE self.type = "Query" /\ f = "hello" -> Ok(Scalar("String", 100 + ArgV(sel.Args, "name")))
          [] self.type = "Query" /\ f = "pick" ->
                Ok(Raw("Item", 20 + 10 * ArgV(sel.Args, "a") + ArgV(sel.Args, "b")))
          [] self.type = "Query" /\ f = "item" -> Ok(Raw("Item", 1))
          [] self.type = "Query" /\ f = "items" ->
                Ok(Arr("Item", [k \in 1..ListLen |-> Raw("Item", k)]))
          [] self.type = "Query" /\ f = "none" -> Ok(Arr("Item", <<>>))
          [] self.type = "Query" /\ f = "maybe" -> Ok(Opt(FALSE, Nil))
          [] self.type = "Query" /\ f = "some" -> Ok(Opt(TRUE, Raw("Item", 7)))
          [] self.type = "Query" /\ f = "loaded" -> Ok(LoadedObject)
          [] self.type = "Query" /\ f = "ghost" -> Ok(Raw("Ghost", 0))
          [] self.type = "Query" /\ f = "alien" -> Ok(AlienObject)
          [] self.type = "Query" /\ f = "bogus" -> Ok(Raw("Item", 9))
          [] self.type = "Query" /\ f = "tags" ->
                Ok(Arr("Int", <<Scalar("Int", 3), Scalar("Int", 1), Scalar("Int", 2)>>))
          [] self.type = "Item" /\ self.self.kind = "raw" /\ f = "name" -> Ok(Scalar("String", p))
          [] self.type = "Item" /\ self.self.kind = "raw" /\ f = "child" -> Ok(Raw("Item", p + 10))
          [] OTHER -> Fail(Err(f))

(***************************************************************************)
(* Selections.                                                             *)
(***************************************************************************)
Selector(field, args, nth) == [Field |-> field, Args |-> args, Nth |-> nth]
Selection(alias, selector, subs) ==
    [Alias |-> alias, Selector |-> selector, Subselections |-> subs]
\* a selection of a field without alias, arguments or index
Plain(field, subs) == Selection("", Selector(field, <<>>, 0), subs)

NameOfField(sel) == sel.Selector.Field

\* Selection.Name: the alias, else the field name
Name(sel) == IF sel.Alias # "" THEN sel.Alias ELSE sel.Selector.Field

(***************************************************************************)
(* Selector.appendToID.  ord is the order in which the range over the      *)
(* argument map happens to visit its keys.                                 *)
(***************************************************************************)
\* the names arguments can have, in the order of Go's < on strings
ArgNameOrder == <<"a", "b", "name", "zzz">>
NameRank(n) == CHOOSE i \in 1..Len(ArgNameOrder) : ArgNameOrder[i] = n
NameLess(x, y) == NameRank(x) < NameRank(y)

RECURSIVE InsertByName(_, _)
InsertByName(a, s) ==
    IF s = <<>> THEN <<a>>
    ELSE IF NameLess(a.Name, Head(s).Name) THEN <<a>> \o s
    ELSE <<Head(s)>> \o InsertByName(a, Tail(s))

SortNoop(s) == s

\* sort.Slice(idArgs, func(i, j) bool { return idArgs[i].Name < idArgs[j].Name })
RECURSIVE SortByName(_)
SortByName(s) == IF s = <<>> THEN <<>> ELSE InsertByName(Head(s), SortByName(Tail(s)))

\* every order a range over the keys of args can take
Orders(args) ==
    LET D == DOMAIN args
        n == Cardinality(D)
    IN  {o \in [1..n -> D] : \A i, j \in 1..n : i # j => o[i] # o[j]}

appendToIDFlagsSwapped(sel, id, field, ord) ==
    LET idArgs == [i \in 1..Len(ord) |->
                      [Name |-> ord[i], Value |-> ToLiteral(sel.Args[ord[i]])]]
    IN  ID(Append(id.Constructor,
                  IDSelector(sel.Field, SortByName(idArgs), 0,
                             "meta" \in field.Directives,
                             "tainted" \in field.Directives)),
           field.Type)

\* the selector appendToID appends: &idproto.Selector{Field, Args, Tainted, Meta}
newSelector(sel, field, ord) ==
    LET idArgs == [i \in 1..Len(ord) |->
                      [Name |-> ord[i], Value |-> ToLiteral(sel.Args[ord[i]])]]
    IN  IDSelector(sel.Field, SortByName(idArgs), 0,
                   "tainted" \in field.Directives,
                   "meta" \in field.Directives)

\* Selector.appendToID: the parent's chain and one selector more
appendToID(sel, id, field, ord) ==
    ID(Append(id.Constructor, newSelector(sel, field, ord)), field.Type)

(***************************************************************************)
(* Server.toSelectable.                                                    *)
(***************************************************************************)
\* val.Type().Name()
ValType(val) == val.type

\* class.New(id, val): the Instance binding val to id
ClassNew(id, val) == Ok(Obj(ValType(val), id, val))

toSelectableRestamp(chainedID, val) ==
    IF IsObject(val) THEN Ok(Obj(val.type, chainedID, val.self))
    ELSE IF ValType(val) \notin Classes THEN Fail(Err("unknown type"))
    ELSE ClassNew(chainedID, val)

toSelectableLookupFirst(chainedID, val) ==
    IF ValType(val) \notin Classes THEN Fail(Err("unknown type"))
    ELSE IF IsObject(val) THEN Ok(val)
    ELSE ClassNew(chainedID, val)

\* Server.toSelectable: an Object as it is, any other value through its class
toSelectable(chainedID, val) ==
    IF IsObject(val) THEN Ok(val)
    ELSE IF ValType(val) \notin Classes THEN Fail(Err("unknown type"))
    ELSE ClassNew(chainedID, val)

\* the objects a call of toSelectable creates (none when it fails or passes
\* an Object through)
Created(chainedID, val) ==
    IF ~IsObject(val) /\ toSelectable(chainedID, val).ok
    THEN {toSelectable(chainedID, val).val} ELSE {}

(***************************************************************************)
(* Server.fromLiteral and Server.constructorToSelection: an ID's chain     *)
(* turned back into one selection per selector, each wrapping the next.    *)
(***************************************************************************)
\* class.NewID(id): a typed handle on an ID
NewID(id) == [kind |-> "scalar", type |-> id.Type.NamedType, v |-> id]

\* default: panic(fmt.Sprintf("fromLiteral: unsupported literal type %T", v))
Unsupported ==
    [ok |-> FALSE, val |-> Nil, err |-> Err("panic: fromLiteral: unsupported literal type")]

RECURSIVE fromLiteral(_, _)
RECURSIVE fromLiterals(_, _)
RECURSIVE fromLiteralsKeepGoing(_, _)
fromLiteralsKeepGoing(lits, argType) ==
    IF lits = <<>> THEN Ok(<<>>)
    ELSE LET typed == fromLiteral(Head(lits), argType)
             more == fromLiteralsKeepGoing(Tail(lits), argType)
         IN  IF ~more.ok THEN more
             ELSE IF ~typed.ok THEN more
             ELSE Ok(<<typed.val>> \o more.val)

\* the loop of the list case: the first element that fails fails the list
fromLiterals(lits, argType) ==
    IF lits = <<>> THEN Ok(<<>>)
    ELSE LET typed == fromLiteral(Head(lits), argType)
             more == fromLiterals(Tail(lits), argType)
         IN  IF ~typed.ok THEN typed
             ELSE IF ~more.ok THEN more
             ELSE Ok(<<typed.val>> \o more.val)

fromLiteralAnyClass(lit, argType) ==
    CASE lit.lit = "Id" ->
            IF lit.v.Type.NamedType = "" THEN Fail(Err("invalid ID"))
            ELSE Ok(NewID(lit.v))
      [] lit.lit = "Int" -> Ok(Scalar("Int", lit.v))
      [] lit.lit = "Float" -> Ok(Scalar("Float", lit.v))
      [] lit.lit = "String_" -> Ok(Scalar("String", lit.v))
      [] lit.lit = "Bool" -> Ok(Scalar("Boolean", lit.v))
      [] lit.lit = "List" ->
            LET list == fromLiterals(lit.v, argType)
            IN  IF ~list.ok THEN list ELSE Ok(Arr(TypeName(argType), list.val))
      [] lit.lit = "Object" -> Fail(Err("TODO: objects"))
      [] lit.lit = "Enum" ->
            IF TypeName(argType) \notin Scalars THEN Fail(Err("unknown scalar"))
            ELSE Ok(Scalar(TypeName(argType), lit.v))
      [] OTHER -> Unsupported

fromLiteral(lit, argType) ==
    CASE lit.lit = "Id" ->
            IF lit.v.Type.NamedType = "" THEN Fail(Err("invalid ID"))
            ELSE IF lit.v.Type.NamedType \notin Classes THEN Fail(Err("unknown class"))
            ELSE Ok(NewID(lit.v))
      [] lit.lit = "Int" -> Ok(Scalar("Int", lit.v))
      [] lit.lit = "Float" -> Ok(Scalar("Float", lit.v))
      [] lit.lit = "String_" -> Ok(Scalar("String", lit.v))
      [] lit.lit = "Bool" -> Ok(Scalar("Boolean", lit.v))
      [] lit.lit = "List" ->
            LET list == fromLiterals(lit.v, argType)
            IN  IF ~list.ok THEN list ELSE Ok(Arr(TypeName(argType), list.val))
      [] lit.lit = "Object" -> Fail(Err("TODO: objects"))
      [] lit.lit = "Enum" ->
            IF TypeName(argType) \notin Scalars THEN Fail(Err("unknown scalar"))
            ELSE Ok(Scalar(TypeName(argType), lit.v))
      [] OTHER -> Unsupported

(***************************************************************************)
(* fromLiteral called on its own: the literals and argument types it is    *)
(* given.                                                                  *)
(***************************************************************************)
\* the literals that are no lists, by number: one of each kind, an ID of a
\* registered class, of no named type and of an unregistered class, and the
\* literal whose Value is not set
PlainLiterals ==
    << Lit("Int", 1), Lit("Int", 2), Lit("Float", 1), Lit("String_", 1), Lit("Bool", 1),
       Lit("Object", 0), Lit("Enum", 1), Lit("Unset", 0),
       Lit("Id", ID(<<IDSelector("item", <<>>, 0, FALSE, FALSE)>>, T("Item", ""))),
       Lit("Id", ID(<<IDSelector("items", <<>>, 0, FALSE, FALSE)>>, T("", "Item"))),
       Lit("Id", ID(<<IDSelector("ghost", <<>>, 0, FALSE, FALSE)>>, T("Ghost", ""))) >>

\* the elements of list literals, by number: the plain literals and some lists
ElementLiterals ==
    PlainLiterals \o
        << Lit("List", <<>>), Lit("List", <<Lit("Int", 1), Lit("Int", 2)>>),
           Lit("List", <<Lit("Int", 1), Lit("Object", 0)>>) >>

\* a literal given to fromLiteral is a plain literal (a sequence of one
\* number) or a list of elements (the sequence of their numbers)
LiteralChoices ==
    {<<"plain", <<n>>>> : n \in DOMAIN PlainLiterals}
        \cup {<<"list", es>> :
                  es \in UNION {[1..n -> DOMAIN ElementLiterals] : n \in 0..MaxLitLen}}
LiteralOf(choice) ==
    IF choice[1] = "plain" THEN PlainLiterals[choice[2][1]]
    ELSE Lit("List", [k \in DOMAIN choice[2] |-> ElementLiterals[choice[2][k]]])

\* argDef.Type: scalars and lists of scalars, registered ("Int") or not ("Mode")
ArgTypes == {T("Int", ""), T("", "Int"), T("Mode", ""), T("", "Mode")}

\* fromLiteral has not been called
NotDecoded == [ok |-> FALSE, val |-> Nil, err |-> Err("not called")]

\* fromLiteral has been called and has returned litOut
Decoded == litOut.ok \/ litOut.err # NotDecoded.err

InitLiteral ==
    /\ litIn = Lit("Unset", 0)
    /\ litType = T("Int", "")
    /\ litOut = NotDecoded

\* typed, err := s.fromLiteral(ctx, lit, argDef)
Decode(lit, argType) ==
    /\ ~Decoded
    /\ litIn' = lit
    /\ litType' = argType
    /\ litOut' = fromLiteral(lit, argType)
    /\ UNCHANGED <<serverVars, cacheVars, registryVars, idVars>>

RECURSIVE decodeArgsLenient(_, _, _)
decodeArgsLenient(idArgs, fieldDef, sofar) ==
    IF idArgs = <<>> THEN Ok(sofar)
    ELSE LET arg == Head(idArgs)
         IN  IF arg.Name \notin DOMAIN fieldDef.Arguments
             THEN decodeArgsLenient(Tail(idArgs), fieldDef, sofar)
             ELSE LET val == fromLiteral(arg.Value, fieldDef.Arguments[arg.Name])
                  IN  IF ~val.ok THEN val
                      ELSE decodeArgsLenient(Tail(idArgs), fieldDef,
                                             (arg.Name :> val.val) @@ sofar)

\* the loop over first.Args: the arguments decoded so far, or the first error
RECURSIVE decodeArgs(_, _, _)
decodeArgs(idArgs, fieldDef, sofar) ==
    IF idArgs = <<>> THEN Ok(sofar)
    ELSE LET arg == Head(idArgs)
         IN  IF arg.Name \notin DOMAIN fieldDef.Arguments
             THEN Fail(Err("unknown argument"))
             ELSE LET val == fromLiteral(arg.Value, fieldDef.Arguments[arg.Name])
                  IN  IF ~val.ok THEN val
                      ELSE decodeArgs(Tail(idArgs), fieldDef,
                                      (arg.Name :> val.val) @@ sofar)

RECURSIVE constructorToSelection(_, _, _)
constructorToSelection(selfType, first, rest) ==
    IF TypeName(selfType) \notin Classes THEN Fail(Err("unknown type"))
    ELSE LET fieldDef == FieldDefinition(TypeName(selfType), first.Field)
         IN  IF fieldDef = NoField THEN Fail(Err("unknown field"))
             ELSE LET args == decodeArgs(first.Args, fieldDef, <<>>)
                  IN  IF ~args.ok THEN args
                      ELSE IF rest = <<>>
                      THEN Ok(Selection("", Selector(first.Field, args.val, first.Nth), <<>>))
                      ELSE LET subsel == constructorToSelection(fieldDef.Type, Head(rest), Tail(rest))
                           IN  IF ~subsel.ok THEN subsel
                               ELSE Ok(Selection("", Selector(first.Field, args.val, first.Nth),
                                                 <<subsel.val>>))

(***************************************************************************)
(* Server.resolvePath.  A call runs until it returns or until it calls     *)
(* Resolve on a child object and waits for that group; a step says which:  *)
(* kind "ret" with the outcome, or kind "spawn" with the child object and  *)
(* the state the call keeps while it waits.                                *)
(***************************************************************************)
\* the value of res before resolvePath has computed it
Unset == [kind |-> "unset"]

StepRet(out, res, calls, new) ==
    [kind |-> "ret", out |-> out, res |-> res, node |-> Nil, n |-> 0, chainedID |-> RootID,
     val |-> Nil, acc |-> Nil, calls |-> calls, new |-> new]
StepSpawn(node, n, chainedID, val, acc, calls, new) ==
    [kind |-> "spawn", out |-> Ok(Nil), res |-> Unset, node |-> node, n |-> n, chainedID |-> chainedID,
     val |-> val, acc |-> acc, calls |-> calls, new |-> new]

\* if n, ok := val.(Nullable); ok { val, ok = n.Unwrap(); isNull = !ok }
Unwrap(val) ==
    IF IsNullable(val) THEN [val |-> val.val, isNull |-> ~val.ok]
    ELSE [val |-> val, isNull |-> FALSE]

\* enum.Nth(nth): the nth element, 1-based
EnumNth(enum, nth) ==
    IF nth \in 1..Len(enum.elems) THEN Ok(enum.elems[nth])
    ELSE Fail(Err("index out of bounds"))

applyNthZeroBased(sel, res) ==
    IF sel.Selector.Nth # 0
    THEN IF ~IsEnumerable(res) THEN Fail(Err("cannot sub-select nth item"))
         ELSE EnumNth(res, sel.Selector.Nth - 1)
    ELSE Ok(res)

\* the trailing index: if sel.Selector.Nth != 0 { ... }; return res, nil
applyNth(sel, res) ==
    IF sel.Selector.Nth # 0
    THEN IF ~IsEnumerable(res) THEN Fail(Err("cannot sub-select nth item"))
         ELSE EnumNth(res, sel.Selector.Nth)
    ELSE Ok(res)

\* resolvePath from the trailing index on, res being computed
finish(sel, res, calls) == StepRet(applyNth(sel, res), res, calls, {})

\* a nil slice of results, which is no empty sequence but null
nilResults == Nil

\* results := []any{}
newResults == Slice(<<>>)

prependResult(results, res) ==
    Slice(<<res>> \o (IF results = Nil THEN <<>> ELSE results.elems))

\* results = append(results, res)
appendResult(results, res) ==
    Slice(Append(IF results = Nil THEN <<>> ELSE results.elems, res))

arrayLoopUnindexed(sel, chainedID, enum, nth, results, calls) ==
    IF nth > Len(enum.elems) THEN finish(sel, results, calls)
    ELSE LET val == EnumNth(enum, nth)
             node == toSelectable(chainedID, val.val)
         IN  IF ~val.ok THEN StepRet(val, Unset, calls, {})
             ELSE IF ~node.ok
             THEN StepRet(Fail(Wrap("instantiate array element", node.err)), Unset, calls, {})
             ELSE StepSpawn(node.val, nth, chainedID, enum, results, calls,
                            Created(chainedID, val.val))

\* the loop over the elements of a list-typed field, entered at element nth
\* with the results of the elements before it
arrayLoop(sel, chainedID, enum, nth, results, calls) ==
    IF nth > Len(enum.elems) THEN finish(sel, results, calls)
    ELSE LET val == EnumNth(enum, nth)
             node == toSelectable(IDNth(chainedID, nth), val.val)
         IN  IF ~val.ok THEN StepRet(val, Unset, calls, {})
             ELSE IF ~node.ok
             THEN StepRet(Fail(Wrap("instantiate array element", node.err)), Unset, calls, {})
             ELSE StepSpawn(node.val, nth, chainedID, enum, results, calls,
                            Created(IDNth(chainedID, nth), val.val))

enumerateSingle(sel, chainedID, val) ==
    arrayLoop(sel, chainedID, IF IsEnumerable(val) THEN val ELSE Arr("", <<val>>),
              1, newResults, TRUE)

\* case fieldDef.Type.Elem != nil: the value must be Enumerable
enumerate(sel, chainedID, val) ==
    IF ~IsEnumerable(val) THEN StepRet(Fail(Err("cannot sub-select")), Unset, TRUE, {})
    ELSE arrayLoop(sel, chainedID, val, 1, newResults, TRUE)

leafReversed(sel, val) ==
    finish(sel,
           IF val.kind = "array"
           THEN Arr(val.type, [k \in DOMAIN val.elems |-> val.elems[Len(val.elems) + 1 - k]])
           ELSE val,
           TRUE)

\* } else if len(sel.Subselections) == 0 { res = val }
leaf(sel, val) == finish(sel, val, TRUE)

\* the branches on a value that is not null
present(sel, fieldDef, chainedID, val) ==
    IF Len(sel.Subselections) = 0 THEN leaf(sel, val)
    ELSE IF fieldDef.Type.NamedType # ""
    THEN LET node == toSelectable(chainedID, val)
         IN  IF ~node.ok THEN StepRet(Fail(Wrap("instantiate", node.err)), Unset, TRUE, {})
             ELSE StepSpawn(node.val, 0, chainedID, val, Nil, TRUE, Created(chainedID, val))
    ELSE IF fieldDef.Type.Elem # "" THEN enumerate(sel, chainedID, val)
    ELSE StepRet(Fail(Err("cannot sub-select")), Unset, TRUE, {})

subselectNullReturns(sel, fieldDef, chainedID, val, isNull) ==
    IF isNull THEN StepRet(Ok(Nil), Nil, TRUE, {})
    ELSE present(sel, fieldDef, chainedID, val)

subselectNullLate(sel, fieldDef, chainedID, val, isNull) ==
    IF isNull /\ Len(sel.Subselections) = 0 THEN finish(sel, Nil, TRUE)
    ELSE IF isNull THEN StepRet(Fail(Err("cannot sub-select")), Unset, TRUE, {})
    ELSE present(sel, fieldDef, chainedID, val)

\* var res any; if isNull { res = nil } else if ... : null first, then the shape
subselect(sel, fieldDef, chainedID, val, isNull) ==
    IF isNull THEN finish(sel, Nil, TRUE)
    ELSE present(sel, fieldDef, chainedID, val)

resolvePathCached(self, sel, ord) ==
    IF self.type \notin Classes THEN StepRet(Fail(Err("unknown type")), Unset, FALSE, {})
    ELSE LET fieldDef == FieldDefinition(self.type, sel.Selector.Field)
         IN  IF fieldDef = NoField THEN StepRet(Fail(Err("unknown field")), Unset, FALSE, {})
             ELSE LET chainedID == appendToID(sel.Selector, self.id, fieldDef, ord)
                      r == Select(self, sel.Selector)
                      hit == \E i \in invoked :
                                 i.self.id = self.id /\ i.field = sel.Selector.Field
                      step == IF ~r.ok THEN StepRet(r, Unset, TRUE, {})
                              ELSE subselect(sel, fieldDef, chainedID,
                                             Unwrap(r.val).val, Unwrap(r.val).isNull)
                  IN  [step EXCEPT !.calls = ~hit]

resolvePathSelectFirst(self, sel, ord) ==
    LET r == Select(self, sel.Selector)
    IN  IF self.type \notin Classes THEN StepRet(Fail(Err("unknown type")), Unset, TRUE, {})
        ELSE LET fieldDef == FieldDefinition(self.type, sel.Selector.Field)
             IN  IF fieldDef = NoField THEN StepRet(Fail(Err("unknown field")), Unset, TRUE, {})
                 ELSE IF ~r.ok THEN StepRet(r, Unset, TRUE, {})
                 ELSE subselect(sel, fieldDef,
                                appendToID(sel.Selector, self.id, fieldDef, ord),
                                Unwrap(r.val).val, Unwrap(r.val).isNull)

\* resolvePath from its entry to its first return or call of Resolve
resolvePath(self, sel, ord) ==
    IF self.type \notin Classes THEN StepRet(Fail(Err("unknown type")), Unset, FALSE, {})
    ELSE LET fieldDef == FieldDefinition(self.type, sel.Selector.Field)
         IN  IF fieldDef = NoField THEN StepRet(Fail(Err("unknown field")), Unset, FALSE, {})
             ELSE LET chainedID == appendToID(sel.Selector, self.id, fieldDef, ord)
                      r == Select(self, sel.Selector)
                  IN  IF ~r.ok THEN StepRet(r, Unset, TRUE, {})
                      ELSE subselect(sel, fieldDef, chainedID,
                                     Unwrap(r.val).val, Unwrap(r.val).isNull)

\* resolvePath from the return of the Resolve it called (res, err) onwards
resumePath(sel, task, child) ==
    IF ~child.ok THEN StepRet(child, Unset, FALSE, {})
    ELSE IF task.n = 0 THEN finish(sel, child.val, FALSE)
    ELSE arrayLoop(sel, task.chainedID, task.val, task.n + 1,
                   appendResult(task.acc, child.val), FALSE)

(***************************************************************************)
(* Server.Resolve: the pool and the result collector of one sibling group. *)
(***************************************************************************)
\* results := new(sync.Map); pool := new(pool.ErrorPool)
NewGroup(self, ss) == [self |-> self, sels |-> ss, results |-> <<>>, errs |-> <<>>]
\* one goroutine per selection, started by pool.Go
NewTask ==
    [pc |-> "start", chainedID |-> RootID, val |-> Nil, n |-> 0, acc |-> Nil,
     res |-> Unset, out |-> Ok(Nil), late |-> FALSE]

cancelledOnError(group) == group.errs # <<>>

\* the ctx that the goroutines hand to resolvePath and Select is the ctx given
\* to Resolve: the new(pool.ErrorPool) derives no context and cancels none
\* when a goroutine returns an error
cancelled(group) == FALSE
StartTasks(g, ss) == [t \in {Append(g, i) : i \in 1..Len(ss)} |-> NewTask]

\* return fmt.Errorf("%s: %w", sel.Name(), err)
taskError(sel, err) == Wrap(Name(sel), err)

taskEndByField(group, sel, out) ==
    IF ~out.ok THEN [group EXCEPT !.errs = Append(@, taskError(sel, out.err))]
    ELSE [group EXCEPT !.results = (sel.Selector.Field :> out.val) @@ @]

taskEndByArrival(group, sel, out) ==
    IF ~out.ok THEN [group EXCEPT !.errs = Append(@, taskError(sel, out.err))]
    ELSE LET k == Cardinality(DOMAIN group.results) + Len(group.errs) + 1
         IN  [group EXCEPT !.results =
                 (Name(group.sels[IF k \in DOMAIN group.sels THEN k ELSE 1]) :> out.val) @@ @]

\* the end of a goroutine: its error goes to the pool, or its result is stored
taskEnd(group, sel, out) ==
    IF ~out.ok THEN [group EXCEPT !.errs = Append(@, taskError(sel, out.err))]
    ELSE [group EXCEPT !.results = (Name(sel) :> out.val) @@ @]

resolveReturnPartial(group) ==
    IF group.errs # <<>> /\ group.results = <<>> THEN Fail(Join(group.errs))
    ELSE Ok(Map(group.results))

\* if err := pool.Wait(); err != nil { return nil, err }; ...; return resultsMap, nil
resolveReturn(group) ==
    IF group.errs # <<>> THEN Fail(Join(group.errs))
    ELSE Ok(Map(group.results))

(***************************************************************************)
(* Server.Load.                                                            *)
(***************************************************************************)
\* for _, sel := range id.Constructor { switch x := res.(type) ... }
RECURSIVE loadWalk(_, _)
loadWalk(res, chain) ==
    IF chain = <<>> THEN Ok(res)
    ELSE IF res.kind # "map" THEN Fail(Err("unexpected result type"))
    ELSE loadWalk(IF Head(chain).Field \in DOMAIN res.m THEN res.m[Head(chain).Field] ELSE Nil,
                  Tail(chain))

\* sel, err := s.constructorToSelection(ctx, s.root.Type(), ...): the error
\* Load returns, or the synthetic selection it resolves
loadSelection(id, root) ==
    LET sel == constructorToSelection(T(root.type, ""), Head(id.Constructor),
                                      Tail(id.Constructor))
    IN  IF ~sel.ok THEN [resolve |-> FALSE, out |-> sel]
        ELSE [resolve |-> TRUE, out |-> sel]

loadCallNoRoot(id, root) ==
    IF Len(id.Constructor) = 0 THEN [resolve |-> FALSE, out |-> Fail(Err("empty ID"))]
    ELSE loadSelection(id, root)

\* Load up to its call of Resolve: an empty chain returns the root
loadCall(id, root) ==
    IF Len(id.Constructor) = 0 THEN [resolve |-> FALSE, out |-> Ok(root)]
    ELSE loadSelection(id, root)

\* Load from the return of its Resolve onwards
loadReturn(id, resolved) ==
    IF ~resolved.ok THEN resolved
    ELSE LET res == loadWalk(resolved.val, id.Constructor)
         IN  IF ~res.ok THEN res
             ELSE IF ~IsTyped(res.val) THEN Fail(Err("unexpected result type"))
             ELSE toSelectable(id, res.val)

(***************************************************************************)
(* The memoization layer (Server.cache, a CacheMap keyed by digest).  An   *)
(* entry is absent, in flight, or done; a flight is one run of the compute *)
(* function together with the callers that wait for it.                    *)
(***************************************************************************)
Digests == {"d1", "d2"}
Callers == 1..MaxCallers

NoEntry == [st |-> "none", flight |-> 0]
NewFlight(d) == [digest |-> d, runs |-> 0, done |-> FALSE, out |-> Ok(Nil)]
\* a goroutine that has not called yet; how tells the way its call went
IdleCaller == [pc |-> "idle", digest |-> "d1", flight |-> 0, out |-> Ok(Nil), how |-> "none"]

\* cache: NewCacheMap[digest.Digest, any]()
InitCache ==
    /\ cache = [d \in Digests |-> NoEntry]
    /\ callers = [c \in Callers |-> IdleCaller]
    /\ flights = <<>>

getOrComputeNoWait(entry) ==
    IF entry.st = "done" THEN "hit" ELSE "compute"

\* what GetOrCompute does on the entry it finds for the digest: return the
\* stored result, wait for the computation in flight, or run computeFn
getOrCompute(entry) ==
    CASE entry.st = "done" -> "hit"
      [] entry.st = "flight" -> "wait"
      [] OTHER -> "compute"

\* caller c calls GetOrCompute(d, computeFn)
CacheCall(c, d) ==
    /\ callers[c].pc = "idle"
    /\ LET how == getOrCompute(cache[d])
           f == Len(flights) + 1
           me == [callers[c] EXCEPT !.digest = d, !.how = how]
       IN  CASE how = "hit" ->
                  /\ callers' = [callers EXCEPT ![c] =
                                    [me EXCEPT !.pc = "returned", !.flight = cache[d].flight,
                                               !.out = flights[cache[d].flight].out]]
                  /\ UNCHANGED <<cache, flights>>
             [] how = "wait" ->
                  /\ callers' = [callers EXCEPT ![c] =
                                    [me EXCEPT !.pc = "waiting", !.flight = cache[d].flight]]
                  /\ UNCHANGED <<cache, flights>>
             [] OTHER ->
                  /\ callers' = [callers EXCEPT ![c] =
                                    [me EXCEPT !.pc = "computing", !.flight = f]]
                  /\ flights' = Append(flights, NewFlight(d))
                  /\ cache' = [cache EXCEPT ![d] = [st |-> "flight", flight |-> f]]
    /\ UNCHANGED <<serverVars, registryVars, idVars, literalVars>>

\* computeFn returns to the caller that runs it: a value or an error, kept
\* for the callers that wait; a failed entry stays or is dropped
CacheCompute(c) ==
    /\ callers[c].pc = "computing"
    /\ LET f == callers[c].flight
           d == callers[c].digest
       IN  \E out \in {Ok(Scalar("Int", f)), Fail(Err("compute"))} : \E keep \in BOOLEAN :
               /\ out.ok => keep
               /\ flights' = [flights EXCEPT ![f] =
                                 [@ EXCEPT !.runs = @ + 1, !.done = TRUE, !.out = out]]
               /\ cache' = [cache EXCEPT ![d] =
                               IF keep THEN [st |-> "done", flight |-> f] ELSE NoEntry]
               /\ callers' = [callers EXCEPT ![c] = [@ EXCEPT !.pc = "returned", !.out = out]]
    /\ UNCHANGED <<serverVars, registryVars, idVars, literalVars>>

\* a caller that waited is woken when the computation it waited for is done
CacheWake(c) ==
    /\ callers[c].pc = "waiting"
    /\ flights[callers[c].flight].done
    /\ callers' = [callers EXCEPT ![c] =
                      [@ EXCEPT !.pc = "returned", !.out = flights[callers[c].flight].out]]
    /\ UNCHANGED <<cache, flights>>
    /\ UNCHANGED <<serverVars, registryVars, idVars, literalVars>>

(***************************************************************************)
(* The class map under installation.  NewServer registers the root class;  *)
(* further classes are installed while resolutions run.  An access to the  *)
(* map takes time: a lookup or a write begins and ends, and a lookup that  *)
(* overlaps a write is a data race, whose outcome is any the build can     *)
(* produce (the old map, the new map, or the runtime's fatal error).       *)
(***************************************************************************)
Installable == {"Item", "Ghost"}
Installers == 1..2
Readers == 1..MaxReaders

IdleInstaller == [pc |-> "idle", class |-> "Item"]
IdleReader == [pc |-> "start", type |-> "Query", raced |-> FALSE, out |-> "none"]

\* classes: map[string]ObjectType{root.Type().Name(): queryClass}; the zero
\* sync.Mutex is unlocked
InitRegistry ==
    /\ registry = {"Query"}
    /\ installLock = "unlocked"
    /\ installers = [i \in Installers |-> IdleInstaller]
    /\ readers = [r \in Readers |-> IdleReader]

\* the installers writing the map and the readers reading it at this moment
Writing == {i \in Installers : installers[i].pc = "writing"}
Reading == {r \in Readers : readers[r].pc = "reading"}

\* an install takes the lock: s.installLock.Lock()
InstallLock(i, class) ==
    /\ installers[i].pc = "idle"
    /\ installLock = "unlocked"
    /\ installLock' = "locked"
    /\ installers' = [installers EXCEPT ![i] = [pc |-> "locked", class |-> class]]
    /\ UNCHANGED <<registry, readers>>
    /\ UNCHANGED <<serverVars, cacheVars, idVars, literalVars>>

\* the write s.classes[name] = class begins; the lookups under way race with it
InstallWrite(i) ==
    /\ installers[i].pc = "locked"
    /\ installers' = [installers EXCEPT ![i].pc = "writing"]
    /\ readers' = [r \in Readers |->
                      IF r \in Reading THEN [readers[r] EXCEPT !.raced = TRUE] ELSE readers[r]]
    /\ UNCHANGED <<registry, installLock>>
    /\ UNCHANGED <<serverVars, cacheVars, idVars, literalVars>>

\* the write ends
InstallWritten(i) ==
    /\ installers[i].pc = "writing"
    /\ registry' = registry \cup {installers[i].class}
    /\ installers' = [installers EXCEPT ![i].pc = "written"]
    /\ UNCHANGED <<installLock, readers>>
    /\ UNCHANGED <<serverVars, cacheVars, idVars, literalVars>>

\* s.installLock.Unlock()
InstallUnlock(i) ==
    /\ installers[i].pc = "written"
    /\ installLock' = "unlocked"
    /\ installers' = [installers EXCEPT ![i].pc = "idle"]
    /\ UNCHANGED <<registry, readers>>
    /\ UNCHANGED <<serverVars, cacheVars, idVars, literalVars>>

\* resolvePath begins class, ok := s.classes[self.Type().Name()]: it takes
\* no lock
LookupBegin(r, type) ==
    /\ readers[r].pc = "start"
    /\ readers' = [readers EXCEPT ![r] =
                      [pc |-> "reading", type |-> type, raced |-> Writing # {}, out |-> "none"]]
    /\ UNCHANGED <<registry, installLock, installers>>
    /\ UNCHANGED <<serverVars, cacheVars, idVars, literalVars>>

\* what a lookup of type can give: the entry or its absence, and anything
\* when it raced with a write
lookupOutcomes(type, raced) ==
    IF raced THEN {"found", "unknown type", "fatal error"}
    ELSE IF type \in registry THEN {"found"}
    ELSE {"unknown type"}

\* the lookup ends
LookupEnd(r) ==
    /\ readers[r].pc = "reading"
    /\ \E out \in lookupOutcomes(readers[r].type, readers[r].raced) :
           readers' = [readers EXCEPT ![r] = [@ EXCEPT !.pc = "done", !.out = out]]
    /\ UNCHANGED <<registry, installLock, installers>>
    /\ UNCHANGED <<serverVars, cacheVars, idVars, literalVars>>

(***************************************************************************)
(* Selector.appendToID on the heap.  An ID is a pointer to a struct whose   *)
(* Constructor is a slice (a backing array, a length; the capacity is the  *)
(* length of the array) and whose Type is a field.  appendToID clones the  *)
(* parent, appends to the clone's slice and sets the clone's Type, in      *)
(* three steps that the other goroutines can interleave with.              *)
(***************************************************************************)
\* two sibling goroutines that extend IDs at the same time
Extenders == 1..2

\* a slot of a backing array beyond the length of every slice on it
NoSelector == [Field |-> ""]

\* the field applications the goroutines extend IDs by
Extensions ==
    { [sel |-> Selector("item", <<>>, 0), field |-> Schema.Query.item],
      [sel |-> Selector("items", <<>>, 0), field |-> Schema.Query.items] }

IdleExtender ==
    [pc |-> "idle", id |-> 0, cp |-> 0, ext |-> CHOOSE x \in Extensions : TRUE,
     before |-> RootID]

\* the chain and the value an ID pointer stands for
ChainOf(ptr) ==
    SubSeq(arrays[idHeap[ptr].Constructor.arr], 1, idHeap[ptr].Constructor.len)
IDValue(ptr) == ID(ChainOf(ptr), idHeap[ptr].Type)

\* idproto.New(root.Type()): the root's ID, the only one before any extension
InitIDs ==
    /\ idHeap = << [Constructor |-> [arr |-> 1, len |-> 0], Type |-> T("Query", "")] >>
    /\ arrays = << <<>> >>
    /\ extenders = [e \in Extenders |-> IdleExtender]
    /\ returned = {[ptr |-> 1, id |-> 0, ext |-> IdleExtender.ext, before |-> RootID]}

\* id.Clone(): a deep copy, the chain in an array of its own; how much room
\* the copy's array has beyond the chain is the allocator's business
Clone(ptr, room) ==
    [heap |-> Append(idHeap, [Constructor |-> [arr |-> Len(arrays) + 1,
                                               len |-> Len(ChainOf(ptr))],
                              Type |-> idHeap[ptr].Type]),
     arrays |-> Append(arrays, ChainOf(ptr) \o [i \in 1..room |-> NoSelector]),
     ptr |-> Len(idHeap) + 1]

cpOfParent(id, clone) == id

\* cp := id.Clone(): what appendToID goes on to change is the clone
cpOf(id, clone) == clone

\* the capacity append gives the array it allocates when the old one is full
Grow(cap) == IF cap = 0 THEN 1 ELSE 2 * cap

\* appendToID is entered with a parent ID that some earlier call returned
ExtendBegin(e, id, ext) ==
    /\ extenders[e].pc = "idle"
    /\ id \in {r.ptr : r \in returned}
    /\ Len(idHeap) + Cardinality({x \in Extenders : extenders[x].pc = "clone"}) < MaxIDs
    /\ extenders' = [extenders EXCEPT ![e] =
                        [pc |-> "clone", id |-> id, cp |-> 0, ext |-> ext,
                         before |-> IDValue(id)]]
    /\ UNCHANGED <<idHeap, arrays, returned>>
    /\ UNCHANGED <<serverVars, cacheVars, registryVars, literalVars>>

\* cp := id.Clone()
ExtendClone(e, room) ==
    /\ extenders[e].pc = "clone"
    /\ LET c == Clone(extenders[e].id, room)
       IN  /\ idHeap' = c.heap
           /\ arrays' = c.arrays
           /\ extenders' = [extenders EXCEPT ![e].pc = "append",
                                             ![e].cp = cpOf(extenders[e].id, c.ptr)]
    /\ UNCHANGED returned
    /\ UNCHANGED <<serverVars, cacheVars, registryVars, literalVars>>

\* cp.Constructor = append(cp.Constructor, &idproto.Selector{...}): in place
\* when the array has room, else in a new and larger array
ExtendAppend(e) ==
    /\ extenders[e].pc = "append"
    /\ LET cp == extenders[e].cp
           h == idHeap[cp].Constructor
           a == arrays[h.arr]
           new == newSelector(extenders[e].ext.sel, extenders[e].ext.field, <<>>)
       IN  IF h.len < Len(a)
           THEN /\ arrays' = [arrays EXCEPT ![h.arr][h.len + 1] = new]
                /\ idHeap' = [idHeap EXCEPT ![cp].Constructor.len = h.len + 1]
           ELSE /\ arrays' = Append(arrays,
                                    SubSeq(a, 1, h.len) \o <<new>>
                                        \o [i \in 1..(Grow(Len(a)) - h.len - 1) |-> NoSelector])
                /\ idHeap' = [idHeap EXCEPT ![cp].Constructor =
                                                [arr |-> Len(arrays) + 1, len |-> h.len + 1]]
    /\ extenders' = [extenders EXCEPT ![e].pc = "type"]
    /\ UNCHANGED returned
    /\ UNCHANGED <<serverVars, cacheVars, registryVars, literalVars>>

\* cp.Type = idproto.NewType(field.Type); return cp
ExtendReturn(e) ==
    /\ extenders[e].pc = "type"
    /\ idHeap' = [idHeap EXCEPT ![extenders[e].cp].Type = extenders[e].ext.field.Type]
    /\ returned' = returned \cup {[ptr |-> extenders[e].cp, id |-> extenders[e].id,
                                   ext |-> extenders[e].ext,
                                   before |-> extenders[e].before]}
    /\ extenders' = [extenders EXCEPT ![e] = IdleExtender]
    /\ UNCHANGED arrays
    /\ UNCHANGED <<serverVars, cacheVars, registryVars, literalVars>>

(***************************************************************************)
(* Server.parseASTSelections: the selection set of a query's AST turned    *)
(* into Selections.  A node is a field (with the definition the validator  *)
(* attached to it), a fragment spread, or an inline fragment.              *)
(***************************************************************************)
ASTField(alias, name, arguments, definition, selectionSet) ==
    [node |-> "Field", Alias |-> alias, Name |-> name, Arguments |-> arguments,
     Definition |-> definition, SelectionSet |-> selectionSet]
ASTSpread(name) == [node |-> "FragmentSpread", Name |-> name]
ASTInline == [node |-> "InlineFragment"]
\* an argument of the AST: its value evaluates to raw, or fails to evaluate
ASTArg(name, raw, bad) == [Name |-> name, Raw |-> raw, Bad |-> bad]

\* gqlOp.Doc.Fragments
Fragments ==
    [itemName |-> <<ASTField("", "name", <<>>, Schema.Item.name, <<>>)>>]

\* a nil pointer is dereferenced: the goroutine panics
Panic == [ok |-> FALSE, val |-> Nil, err |-> Err("panic: nil pointer dereference")]

\* the loop over x.Arguments: the arguments decoded so far, the first error,
\* or the panic of arg.Name on the nil definition of an unknown argument
RECURSIVE parseASTArguments(_, _, _)
parseASTArguments(arguments, definition, args) ==
    IF arguments = <<>> THEN Ok(args)
    ELSE LET a == Head(arguments)
         IN  IF a.Bad THEN Fail(Err("value"))
             ELSE IF a.Name \notin DOMAIN definition.Arguments THEN Panic
             ELSE IF TypeName(definition.Arguments[a.Name]) \notin Scalars
             THEN Fail(Err("unknown scalar"))
             ELSE parseASTArguments(Tail(arguments), definition,
                     (a.Name :> Scalar(TypeName(definition.Arguments[a.Name]), a.Raw)) @@ args)

RECURSIVE parseASTSelections(_)
parseASTSelections(astSels) ==
    IF astSels = <<>> THEN Ok(<<>>)
    ELSE LET x == Head(astSels)
             first ==
                 CASE x.node = "Field" ->
                        LET args == parseASTArguments(x.Arguments, x.Definition, <<>>)
                            subsels == parseASTSelections(x.SelectionSet)
                        IN  IF ~args.ok THEN args
                            ELSE IF ~subsels.ok THEN subsels
                            ELSE Ok(<<Selection(x.Alias, Selector(x.Name, args.val, 0),
                                                subsels.val)>>)
                   [] x.node = "FragmentSpread" ->
                        IF x.Name \notin DOMAIN Fragments THEN Fail(Err("unknown fragment"))
                        ELSE parseASTSelections(Fragments[x.Name])
                   [] OTHER -> Fail(Err("unknown field type"))
             rest == parseASTSelections(Tail(astSels))
         IN  IF ~first.ok THEN first
             ELSE IF ~rest.ok THEN rest
             ELSE Ok(first.val \o rest.val)

(***************************************************************************)
(* The requests made of the server.                                        *)
(***************************************************************************)
NewInt(n) == Scalar("Int", n)
NewString(n) == Scalar("String", n)

\* selections on the root that sibling groups are built from
TopSels ==
    { Selection("", Selector("hello", [name |-> NewString(1)], 0), <<>>),
      Plain("boom", <<>>),
      Plain("maybe", <<Plain("name", <<>>)>>),
      Selection("x", Selector("pick", [a |-> NewInt(1), b |-> NewInt(2)], 0),
                <<Plain("name", <<>>)>>) }

\* further sibling groups, resolved as they are
Groups ==
    { <<>>,
      << Plain("none", <<Plain("name", <<>>)>>) >>,
      << Plain("some", <<Plain("name", <<>>)>>) >>,
      << Plain("loaded", <<Plain("name", <<>>)>>) >>,
      << Plain("ghost", <<Plain("name", <<>>)>>) >>,
      << Plain("hello", <<Plain("name", <<>>)>>) >>,
      << Plain("tags", <<>>) >>,
      << Plain("tags", <<Plain("name", <<>>)>>) >>,
      << Plain("nope", <<>>) >>,
      << Selection("b", Selector("boom", <<>>, 0), <<>>),
         Selection("h", Selector("hello", [name |-> NewString(2)], 0), <<>>) >>,
      << Plain("items", <<>>) >>,
      << Plain("items", <<Plain("name", <<>>)>>) >>,
      << Plain("items", <<Plain("name", <<>>)>>), Plain("boom", <<>>) >>,
      << Plain("item", <<Plain("name", <<>>)>>),
         Selection("all", Selector("items", <<>>, 0),
                   <<Plain("name", <<>>),
                     Selection("c", Selector("child", <<>>, 0), <<Plain("name", <<>>)>>)>>),
         Plain("tags", <<>>) >>,
      << Plain("items", <<Plain("name", <<>>), Plain("boom", <<>>)>>) >>,
      << Plain("items", <<Plain("child", <<Plain("name", <<>>)>>)>>) >>,
      << Plain("item", <<Plain("child", <<Plain("name", <<>>)>>),
                         Selection("n", Selector("name", <<>>, 0), <<>>)>>),
         Plain("boom", <<>>) >>,
      << Plain("item", <<Plain("boom", <<>>),
                         Selection("b", Selector("boom", <<>>, 0), <<>>)>>) >>,
      << Plain("item", <<Plain("name", <<>>),
                         Selection("name", Selector("child", <<>>, 0),
                                   <<Plain("name", <<>>)>>)>>) >>,
      << Selection("", Selector("hello", [zzz |-> NewString(1)], 0), <<>>) >>,
      << Plain("alien", <<Plain("name", <<>>)>>), Plain("nope", <<>>) >>,
      << Plain("bogus", <<Plain("name", <<>>)>>) >> }

\* the selection sets of the queries given to Exec
Docs ==
    { << ASTField("", "hello", <<ASTArg("name", 1, FALSE)>>, Schema.Query.hello, <<>>) >>,
      << ASTField("", "hello", <<ASTArg("zzz", 1, FALSE)>>, Schema.Query.hello, <<>>) >>,
      << ASTField("", "hello", <<ASTArg("name", 1, TRUE)>>, Schema.Query.hello, <<>>) >>,
      << ASTField("i", "item", <<>>, Schema.Query.item, <<ASTSpread("itemName")>>),
         ASTField("", "pick", <<ASTArg("a", 1, FALSE), ASTArg("b", 2, FALSE)>>,
                  Schema.Query.pick, <<ASTField("", "name", <<>>, Schema.Item.name, <<>>)>>) >>,
      << ASTField("", "item", <<>>, Schema.Query.item, <<ASTSpread("nope")>>) >>,
      << ASTField("", "item", <<>>, Schema.Query.item, <<ASTInline>>) >> }

SeqsUpTo(S, n) == UNION {[1..k -> S] : k \in 1..n}
Requests == SeqsUpTo(TopSels, MaxSiblings) \cup Groups

\* selectors of hand-made IDs
LoadSelectors ==
    { IDSelector(f, <<>>, 0, FALSE, FALSE) :
        f \in {"item", "items", "none", "maybe", "some", "boom", "loaded", "ghost",
               "tags", "name", "child", "hello", "nope"} }
    \cup { IDSelector(f, <<>>, 1, FALSE, FALSE) : f \in {"items", "none", "maybe", "item"} }
    \cup { IDSelector("hello", <<[Name |-> "name", Value |-> Lit("String_", 1)]>>, 0, FALSE, FALSE),
           IDSelector("hello", <<[Name |-> "zzz", Value |-> Lit("String_", 1)]>>, 0, FALSE, FALSE),
           IDSelector("pick", <<[Name |-> "a", Value |-> Lit("Int", 1)],
                                [Name |-> "b", Value |-> Lit("Object", 0)]>>, 0, FALSE, FALSE) }
HandIDs ==
    {RootID, ID(<<>>, T("Item", ""))} \cup {ID(c, T("Item", "")) : c \in SeqsUpTo(LoadSelectors, MaxChain)}

(***************************************************************************)
(* The state machine.                                                      *)
(***************************************************************************)
NoCalls == <<>>

Init ==
    /\ phase = "idle"
    /\ sels = <<>>
    /\ loadID = RootID
    /\ groups = NoCalls
    /\ tasks = NoCalls
    /\ ret = Ok(Nil)
    /\ invoked = {}
    /\ made = {}
    /\ issued = {}
    /\ InitCache
    /\ InitRegistry
    /\ InitIDs
    /\ InitLiteral

Without(f, S) == [x \in DOMAIN f \ S |-> f[x]]

\* task t, running sel on self, has come to step: it returns, or it starts
\* the group of its child and waits
Advance(t, self, sel, step, G, Tk) ==
    /\ invoked' = IF step.calls
                  THEN invoked \cup {[task |-> t, self |-> self, field |-> sel.Selector.Field,
                                       nth |-> Cardinality({i \in invoked : i.task = t}) + 1]}
                  ELSE invoked
    /\ made' = made \cup step.new
    /\ IF step.kind = "ret"
       THEN /\ tasks' = [Tk EXCEPT ![t] = [@ EXCEPT !.pc = "ret", !.out = step.out, !.res = step.res]]
            /\ groups' = G
       ELSE /\ tasks' = [Tk EXCEPT ![t] = [pc |-> "wait", chainedID |-> step.chainedID,
                                            val |-> step.val, n |-> step.n,
                                            acc |-> step.acc, res |-> Unset, out |-> Ok(Nil),
                                            late |-> Tk[t].late]]
                        @@ StartTasks(Append(t, step.n), sel.Subselections)
            /\ groups' = G @@ (Append(t, step.n) :> NewGroup(step.node, sel.Subselections))

\* Resolve is called on the root with the selections of a query
Resolve(ss) ==
    /\ phase = "idle"
    /\ phase' = "resolving"
    /\ sels' = ss
    /\ groups' = (<<>> :> NewGroup(Root, ss))
    /\ tasks' = StartTasks(<<>>, ss)
    /\ UNCHANGED <<loadID, ret, invoked, made, issued>>
    /\ UNCHANGED <<cacheVars, registryVars, idVars, literalVars>>

\* Exec parses the selection set of a query and resolves it on the root; a
\* selection set that does not parse is answered with the error
Exec(astSels) ==
    /\ phase = "idle"
    /\ LET parsed == parseASTSelections(astSels)
       IN  IF parsed = Panic
           THEN /\ phase' = "panicked"
                /\ ret' = parsed
                /\ UNCHANGED <<sels, groups, tasks>>
           ELSE IF ~parsed.ok
           THEN /\ phase' = "rejected"
                /\ ret' = Fail(Wrap("failed to convert selections", parsed.err))
                /\ UNCHANGED <<sels, groups, tasks>>
           ELSE /\ phase' = "resolving"
                /\ sels' = parsed.val
                /\ groups' = (<<>> :> NewGroup(Root, parsed.val))
                /\ tasks' = StartTasks(<<>>, parsed.val)
                /\ UNCHANGED ret
    /\ UNCHANGED <<loadID, invoked, made, issued>>
    /\ UNCHANGED <<cacheVars, registryVars, idVars, literalVars>>

\* a goroutine of the pool runs resolvePath up to its return or its call of Resolve
Enter(t) ==
    /\ tasks[t].pc = "start"
    /\ LET g == Parent(t)
           sel == groups[g].sels[Last(t)]
       IN  \E ord \in Orders(sel.Selector.Args) :
               Advance(t, groups[g].self, sel,
                       IF cancelled(groups[g])
                       THEN StepRet(Fail(Err("context canceled")), Unset, FALSE, {})
                       ELSE resolvePath(groups[g].self, sel, ord),
                       groups, [tasks EXCEPT ![t].late = groups[g].errs # <<>>])
    /\ UNCHANGED <<phase, sels, loadID, ret, issued>>
    /\ UNCHANGED <<cacheVars, registryVars, idVars, literalVars>>

\* a goroutine ends: its result goes to the collector or its error to the pool
Store(t) ==
    /\ tasks[t].pc = "ret"
    /\ LET g == Parent(t)
       IN  groups' = [groups EXCEPT ![g] = taskEnd(@, @.sels[Last(t)], tasks[t].out)]
    /\ tasks' = [tasks EXCEPT ![t].pc = "done"]
    /\ UNCHANGED <<phase, sels, loadID, ret, invoked, made, issued>>
    /\ UNCHANGED <<cacheVars, registryVars, idVars, literalVars>>

AllDoneOrFailed(g) ==
    \/ \A t \in TasksOf(g) : tasks[t].pc = "done"
    \/ groups[g].errs # <<>>

\* pool.Wait() returns: every goroutine of the pool has returned
AllDone(g) == \A t \in TasksOf(g) : tasks[t].pc = "done"

\* pool.Wait returns in a Resolve that resolvePath called: the caller goes on
Wait(g) ==
    /\ g # <<>>
    /\ AllDone(g)
    /\ LET t == Parent(g)
           pg == Parent(t)
           sel == groups[pg].sels[Last(t)]
       IN  Advance(t, groups[pg].self, sel,
                   resumePath(sel, tasks[t], resolveReturn(groups[g])),
                   Without(groups, {g}), Without(tasks, TasksOf(g)))
    /\ UNCHANGED <<phase, sels, loadID, ret, issued>>
    /\ UNCHANGED <<cacheVars, registryVars, idVars, literalVars>>

\* pool.Wait returns in the Resolve of the query: Resolve returns
ResolveDone ==
    /\ phase = "resolving"
    /\ AllDone(<<>>)
    /\ phase' = "resolved"
    /\ ret' = resolveReturn(groups[<<>>])
    /\ issued' = made
    /\ UNCHANGED <<sels, loadID, groups, tasks, invoked, made>>
    /\ UNCHANGED <<cacheVars, registryVars, idVars, literalVars>>

\* Load is called with an ID: hand-made, or one the last Resolve gave an object
Load(id) ==
    /\ phase \in {"idle", "resolved"}
    /\ loadID' = id
    /\ invoked' = {}
    /\ made' = {}
    /\ LET call == loadCall(id, Root)
       IN  IF ~call.resolve
           THEN /\ phase' = "loaded"
                /\ ret' = call.out
                /\ groups' = NoCalls
                /\ tasks' = NoCalls
           ELSE /\ phase' = "loading"
                /\ ret' = Ok(Nil)
                /\ groups' = (<<>> :> NewGroup(Root, <<call.out.val>>))
                /\ tasks' = StartTasks(<<>>, <<call.out.val>>)
    /\ UNCHANGED <<sels, issued>>
    /\ UNCHANGED <<cacheVars, registryVars, idVars, literalVars>>

\* pool.Wait returns in the Resolve that Load called: Load returns
LoadDone ==
    /\ phase = "loading"
    /\ AllDone(<<>>)
    /\ phase' = "loaded"
    /\ ret' = loadReturn(loadID, resolveReturn(groups[<<>>]))
    /\ UNCHANGED <<sels, loadID, groups, tasks, invoked, made, issued>>
    /\ UNCHANGED <<cacheVars, registryVars, idVars, literalVars>>

Next ==
    \/ \E ss \in Requests : Resolve(ss)
    \/ \E astSels \in Docs : Exec(astSels)
    \/ \E t \in DOMAIN tasks : Enter(t)
    \/ \E t \in DOMAIN tasks : Store(t)
    \/ \E g \in DOMAIN groups : Wait(g)
    \/ ResolveDone
    \/ \E id \in (IF phase = "idle" THEN HandIDs ELSE {o.id : o \in issued}) : Load(id)
    \/ LoadDone

Spec == Init /\ [][Next]_vars

\* the memoization layer used by concurrent callers
NextCache ==
    \/ \E c \in Callers : \E d \in Digests : CacheCall(c, d)
    \/ \E c \in Callers : CacheCompute(c)
    \/ \E c \in Callers : CacheWake(c)

SpecCache == Init /\ [][NextCache]_vars

\* classes installed while resolutions look classes up
NextRegistry ==
    \/ \E i \in Installers : \E class \in Installable : InstallLock(i, class)
    \/ \E i \in Installers : InstallWrite(i)
    \/ \E i \in Installers : InstallWritten(i)
    \/ \E i \in Installers : InstallUnlock(i)
    \/ \E r \in Readers : \E type \in {"Query"} \cup Installable : LookupBegin(r, type)
    \/ \E r \in Readers : LookupEnd(r)

SpecRegistry == Init /\ [][NextRegistry]_vars

\* sibling goroutines that extend IDs, each other's results included
NextIDs ==
    \/ \E e \in Extenders : \E id \in 1..MaxIDs : \E ext \in Extensions : ExtendBegin(e, id, ext)
    \/ \E e \in Extenders : \E room \in 0..1 : ExtendClone(e, room)
    \/ \E e \in Extenders : ExtendAppend(e)
    \/ \E e \in Extenders : ExtendReturn(e)

SpecIDs == Init /\ [][NextIDs]_vars

\* fromLiteral called with a literal and an argument type
NextLiteral ==
    \E choice \in LiteralChoices : \E argType \in ArgTypes : Decode(LiteralOf(choice), argType)

SpecLiteral == Init /\ [][NextLiteral]_vars

(***************************************************************************)
(* What the properties below speak of.                                     *)
(***************************************************************************)
\* the group a task belongs to, its selection and the object it resolves on
GroupOf(t) == groups[Parent(t)]
SelOf(t) == GroupOf(t).sels[Last(t)]
SelfOf(t) == GroupOf(t).self

\* the result name of a selection as the specification gives it
ResultName(sel) == IF sel.Alias = "" THEN sel.Selector.Field ELSE sel.Alias

\* task t has run resolvePath to its end
Returned(t) == tasks[t].pc \in {"ret", "done"}
Failed(t) == Returned(t) /\ ~tasks[t].out.ok
Succeeded(t) == Returned(t) /\ tasks[t].out.ok

\* the tasks and groups of the calls made, directly or not, by task t
Below(t) == {u \in DOMAIN tasks : Len(u) > Len(t) /\ SubSeq(u, 1, Len(t)) = t}
GroupsBelow(t) == {g \in DOMAIN groups : Len(g) > Len(t) /\ SubSeq(g, 1, Len(t)) = t}
InvokedBelow(t) ==
    {i \in invoked : Len(i.task) > Len(t) /\ SubSeq(i.task, 1, Len(t)) = t}

\* the field of task t is defined on the class of its object
KnownField(t) ==
    /\ SelfOf(t).type \in Classes
    /\ SelOf(t).Selector.Field \in DOMAIN Schema[SelfOf(t).type]
\* what the field of task t returns
FieldValue(t) == Select(SelfOf(t), SelOf(t).Selector)
DeclaredType(t) == Schema[SelfOf(t).type][SelOf(t).Selector.Field].Type

(***************************************************************************)
(* C1: when at least one selection of a sibling group fails, Resolve       *)
(* returns an error and no map: at every pool.Wait that returns with a     *)
(* failed sibling the return is (nil, err), and the Resolve of a query     *)
(* with a failed selection has returned exactly that, in whatever order    *)
(* the siblings ended.                                                     *)
(***************************************************************************)
C1_NoPartialMap ==
    /\ \A g \in DOMAIN groups :
          (AllDone(g) /\ \E t \in TasksOf(g) : Failed(t)) =>
              /\ ~resolveReturn(groups[g]).ok
              /\ resolveReturn(groups[g]).val = Nil
              /\ resolveReturn(groups[g]).err # NoErr
    /\ (phase = "resolved" /\ \E t \in TasksOf(<<>>) : Failed(t)) =>
          ~ret.ok /\ ret.val = Nil /\ ret.err # NoErr

\* a group of three whose second selection failed after the other two had
\* stored their results
C1_Witness ==
    /\ phase = "resolved"
    /\ Len(sels) = 3
    /\ Failed(<<2>>) /\ Succeeded(<<1>>) /\ Succeeded(<<3>>)
    /\ DOMAIN groups[<<>>].results # {}

\* task t is the only one of group g to have failed
OnlyFailure(g, t) == Failed(t) /\ \A u \in TasksOf(g) \ {t} : Succeeded(u)

(***************************************************************************)
(* C2: when exactly one selection of a sibling group fails, the error      *)
(* Resolve returns is that selection's error prefixed with its result name *)
(* (the alias when set, else the field name), and it carries the name of   *)
(* no sibling that succeeded.                                              *)
(***************************************************************************)
C2_ErrorNamesFailingSelection ==
    /\ \A g \in DOMAIN groups : \A t \in TasksOf(g) :
          (AllDone(g) /\ OnlyFailure(g, t)) =>
              LET e == resolveReturn(groups[g]).err
              IN  /\ Len(e) = Len(tasks[t].out.err)
                  /\ \A i \in DOMAIN e :
                        /\ e[i].path = <<ResultName(SelOf(t))>> \o tasks[t].out.err[i].path
                        /\ e[i].msg = tasks[t].out.err[i].msg
                        /\ \A u \in TasksOf(g) \ {t} :
                              ResultName(SelOf(u)) # ResultName(SelOf(t))
                                  => e[i].path[1] # ResultName(SelOf(u))
    /\ \A t \in TasksOf(<<>>) :
          (phase = "resolved" /\ OnlyFailure(<<>>, t)) =>
              /\ ~ret.ok
              /\ \A i \in DOMAIN ret.err : ret.err[i].path[1] = ResultName(SelOf(t))

\* an aliased selection is the only one to fail, beside a sibling that succeeds
C2_Witness ==
    /\ phase = "resolved"
    /\ \E t \in TasksOf(<<>>) :
          /\ OnlyFailure(<<>>, t)
          /\ SelOf(t).Alias # ""
          /\ SelOf(t).Alias # SelOf(t).Selector.Field
    /\ \E u \in TasksOf(<<>>) : Succeeded(u)

\* the field of task t returns a Nullable that is absent
Absent(t) ==
    /\ KnownField(t)
    /\ FieldValue(t).ok
    /\ IsNullable(FieldValue(t).val)
    /\ ~FieldValue(t).val.ok

(***************************************************************************)
(* C3: when the field of a selection returns an absent Nullable, the       *)
(* selection's result (res) is null even with sub-selections requested:    *)
(* nothing is materialized, resolvePath never calls Resolve for the        *)
(* sub-selections, no field below is invoked, and without a trailing index *)
(* resolvePath returns null and no error.                                  *)
(***************************************************************************)
C3_NullShortCircuit ==
    \A t \in DOMAIN tasks :
        (tasks[t].pc # "start" /\ Absent(t)) =>
            /\ Returned(t)
            /\ tasks[t].res = Nil
            /\ GroupsBelow(t) = {} /\ Below(t) = {} /\ InvokedBelow(t) = {}
            /\ \A o \in made : o.self # FieldValue(t).val.val
            /\ SelOf(t).Selector.Nth = 0 => tasks[t].out = Ok(Nil)
            /\ (SelOf(t).Selector.Nth = 0 /\ tasks[t].pc = "done")
                  => /\ ResultName(SelOf(t)) \in DOMAIN GroupOf(t).results
                     /\ GroupOf(t).results[ResultName(SelOf(t))] = Nil
                     /\ \A i \in DOMAIN GroupOf(t).errs :
                           GroupOf(t).errs[i][1].path[1] # ResultName(SelOf(t))

\* the absent field was selected with sub-selections, and its null is stored
C3_Witness ==
    \E t \in DOMAIN tasks :
        /\ Absent(t)
        /\ tasks[t].pc = "done"
        /\ Len(SelOf(t).Subselections) > 0
        /\ GroupOf(t).results = (ResultName(SelOf(t)) :> Nil)

(***************************************************************************)
(* The results the specification gives, computed one selection after the   *)
(* other with no tasks: the reference the resolver's results are held to.  *)
(***************************************************************************)
RefFail == [ok |-> FALSE, val |-> Nil]
RefOk(v) == [ok |-> TRUE, val |-> v]
RefObj(v) == IF IsObject(v) THEN v ELSE Obj(v.type, RootID, v)
RefIndex(sel, res) ==
    IF sel.Selector.Nth = 0 THEN RefOk(res)
    ELSE IF res.kind = "array" /\ sel.Selector.Nth \in 1..Len(res.elems)
    THEN RefOk(res.elems[sel.Selector.Nth])
    ELSE RefFail

RECURSIVE RefGroup(_, _)
RECURSIVE RefSel(_, _)
RefSel(self, sel) ==
    IF self.type \notin Classes THEN RefFail
    ELSE IF sel.Selector.Field \notin DOMAIN Schema[self.type] THEN RefFail
    ELSE LET type == Schema[self.type][sel.Selector.Field].Type
             r == Select(self, sel.Selector)
             v == IF IsNullable(r.val) THEN r.val.val ELSE r.val
         IN  IF ~r.ok THEN RefFail
             ELSE IF IsNullable(r.val) /\ ~r.val.ok THEN RefIndex(sel, Nil)
             ELSE IF sel.Subselections = <<>> THEN RefIndex(sel, v)
             ELSE IF type.NamedType # ""
             THEN IF ~IsObject(v) /\ v.type \notin Classes THEN RefFail
                  ELSE IF ~RefGroup(RefObj(v), sel.Subselections).ok THEN RefFail
                  ELSE RefIndex(sel, RefGroup(RefObj(v), sel.Subselections).val)
             ELSE IF v.kind # "array" THEN RefFail
             ELSE IF \E k \in DOMAIN v.elems :
                        \/ ~IsObject(v.elems[k]) /\ v.elems[k].type \notin Classes
                        \/ ~RefGroup(RefObj(v.elems[k]), sel.Subselections).ok
             THEN RefFail
             ELSE RefIndex(sel, Slice([k \in DOMAIN v.elems |->
                                  RefGroup(RefObj(v.elems[k]), sel.Subselections).val]))

RefGroup(self, ss) ==
    IF \E i \in DOMAIN ss : ~RefSel(self, ss[i]).ok THEN RefFail
    ELSE RefOk(Map([n \in {ResultName(ss[i]) : i \in DOMAIN ss} |->
                      RefSel(self, ss[CHOOSE i \in DOMAIN ss : ResultName(ss[i]) = n]).val]))

\* the field of task t is list-typed, was selected with sub-selections and
\* returned an Enumerable
ListSelected(t) ==
    /\ KnownField(t)
    /\ DeclaredType(t).NamedType = "" /\ DeclaredType(t).Elem # ""
    /\ Len(SelOf(t).Subselections) > 0
    /\ FieldValue(t).ok
    /\ IsEnumerable(FieldValue(t).val)

(***************************************************************************)
(* C4: when a list-typed field selected with sub-selections returns an     *)
(* Enumerable of length 0, the selection's result (res) is the empty       *)
(* sequence and never null, and no sub-selection is resolved; without a    *)
(* trailing index the empty sequence is what resolvePath returns and what  *)
(* is stored for the selection.                                            *)
(***************************************************************************)
C4_EmptyListNotNull ==
    \A t \in DOMAIN tasks :
        (tasks[t].pc # "start" /\ ListSelected(t) /\ Len(FieldValue(t).val.elems) = 0) =>
            /\ Returned(t)
            /\ tasks[t].res = Slice(<<>>)
            /\ tasks[t].res # Nil
            /\ GroupsBelow(t) = {} /\ Below(t) = {} /\ InvokedBelow(t) = {}
            /\ SelOf(t).Selector.Nth = 0 => tasks[t].out = Ok(Slice(<<>>))
            /\ (SelOf(t).Selector.Nth = 0 /\ tasks[t].pc = "done")
                  => /\ ResultName(SelOf(t)) \in DOMAIN GroupOf(t).results
                     /\ GroupOf(t).results[ResultName(SelOf(t))] = Slice(<<>>)

\* the empty list was selected with sub-selections, and [] is stored for it
C4_Witness ==
    \E t \in DOMAIN tasks :
        /\ ListSelected(t) /\ Len(FieldValue(t).val.elems) = 0
        /\ tasks[t].pc = "done"
        /\ GroupOf(t).results = (ResultName(SelOf(t)) :> Slice(<<>>))

\* the result map the sub-selections of task t have on the k-th element
EntryOf(t, k) == RefGroup(RefObj(FieldValue(t).val.elems[k]), SelOf(t).Subselections)

(***************************************************************************)
(* C5: when a list-typed field selected with sub-selections returns an     *)
(* Enumerable of length n and every element resolves, the selection's      *)
(* result is a sequence of exactly n entries, the k-th being the           *)
(* sub-selection result map of the k-th element: the entries gathered so   *)
(* far are those of the first elements in index order at every moment,     *)
(* whatever the order in which the sub-selection tasks end.                *)
(***************************************************************************)
C5_ListInIndexOrder ==
    \A t \in DOMAIN tasks :
        (tasks[t].pc # "start" /\ ListSelected(t)) =>
            LET n == Len(FieldValue(t).val.elems)
            IN  /\ tasks[t].pc = "wait" =>
                      /\ tasks[t].n \in 1..n
                      /\ tasks[t].acc.kind = "slice"
                      /\ Len(tasks[t].acc.elems) = tasks[t].n - 1
                      /\ \A k \in 1..Len(tasks[t].acc.elems) :
                            EntryOf(t, k).ok /\ tasks[t].acc.elems[k] = EntryOf(t, k).val
                /\ (Returned(t) /\ \A k \in 1..n : EntryOf(t, k).ok) =>
                      /\ tasks[t].res.kind = "slice"
                      /\ Len(tasks[t].res.elems) = n
                      /\ \A k \in 1..n : tasks[t].res.elems[k] = EntryOf(t, k).val
                      /\ SelOf(t).Selector.Nth = 0 => tasks[t].out = Ok(tasks[t].res)

\* a list of at least two elements was resolved to the end beside a sibling,
\* and its entries differ from one another
C5_Witness ==
    \E t \in DOMAIN tasks :
        /\ ListSelected(t)
        /\ tasks[t].pc = "done"
        /\ tasks[t].out.ok
        /\ Len(tasks[t].res.elems) = ListLen
        /\ ListLen >= 2
        /\ tasks[t].res.elems[1] # tasks[t].res.elems[2]
        /\ Cardinality(TasksOf(Parent(t))) > 1
        /\ Cardinality(DOMAIN tasks[t].res.elems[1].m) > 1

\* the IDs appendToID has made and the state still holds
ExtendedIDs ==
    {tasks[t].chainedID : t \in {u \in DOMAIN tasks : tasks[u].pc = "wait"}}
        \cup {o.id : o \in made}

\* the arguments are in ascending name order
Ascending(args) ==
    \A i, j \in DOMAIN args :
        i < j => NameRank(args[i].Name) < NameRank(args[j].Name)

(***************************************************************************)
(* C6: argument maps with the same name-to-value pairs give identical      *)
(* extended IDs in whatever order their keys are visited: the arguments of *)
(* the selector appendToID appends are in ascending name order, so two     *)
(* tasks that extend the same parent ID by the same selector hold equal    *)
(* IDs, and so do the objects made from them.                              *)
(***************************************************************************)
C6_CanonicalArgumentOrder ==
    /\ \A id \in ExtendedIDs : \A i \in DOMAIN id.Constructor :
          Ascending(id.Constructor[i].Args)
    /\ \A t \in DOMAIN tasks :
          tasks[t].pc = "wait" =>
              LET last == tasks[t].chainedID.Constructor[Len(tasks[t].chainedID.Constructor)]
              IN  /\ last.Field = SelOf(t).Selector.Field
                  /\ {a.Name : a \in {last.Args[i] : i \in DOMAIN last.Args}}
                        = DOMAIN SelOf(t).Selector.Args
                  /\ Len(last.Args) = Cardinality(DOMAIN SelOf(t).Selector.Args)
    /\ \A t, u \in DOMAIN tasks :
          (/\ tasks[t].pc = "wait" /\ tasks[u].pc = "wait"
           /\ SelfOf(t).id = SelfOf(u).id
           /\ SelOf(t).Selector = SelOf(u).Selector)
              => tasks[t].chainedID = tasks[u].chainedID

\* two sibling tasks have extended the root's ID by the same two-argument
\* selector, and an object carries the extended ID
C6_Witness ==
    \E t, u \in DOMAIN tasks :
        /\ t # u
        /\ tasks[t].pc = "wait" /\ tasks[u].pc = "wait"
        /\ SelOf(t).Selector = SelOf(u).Selector
        /\ Cardinality(DOMAIN SelOf(t).Selector.Args) = 2
        /\ \E o \in made : o.id = tasks[t].chainedID

\* the object that resolution gave the ID to
IssuedObject(id) == CHOOSE o \in issued : o.id = id

(***************************************************************************)
(* C7: replay equivalence.  For every ID that the resolution of a query    *)
(* gave to an object, Load of that ID succeeds and returns an object that  *)
(* no selection tells from the one resolution made: the same type, the     *)
(* same value and the same ID.                                             *)
(***************************************************************************)
C7_ReplayEquivalence ==
    (phase = "loaded" /\ loadID \in {o.id : o \in issued}) =>
        /\ ret.ok
        /\ ret.val.type = IssuedObject(loadID).type
        /\ ret.val.self = IssuedObject(loadID).self
        /\ ret.val.id = loadID

\* the same for the IDs whose selectors carry no index but the last
C7_ReplayOfUnindexedPrefix ==
    (/\ phase = "loaded"
     /\ loadID \in {o.id : o \in issued}
     /\ \A i \in 1..(Len(loadID.Constructor) - 1) : loadID.Constructor[i].Nth = 0) =>
        /\ ret.ok
        /\ ret.val.type = IssuedObject(loadID).type
        /\ ret.val.self = IssuedObject(loadID).self
        /\ ret.val.id = loadID

(***************************************************************************)
(* C8: Load of an ID whose chain is empty returns the root object, calls   *)
(* no Resolve, invokes no field and does not fail.                         *)
(***************************************************************************)
C8_EmptyChainIsRoot ==
    (phase = "loaded" /\ Len(loadID.Constructor) = 0) =>
        /\ ret = Ok(Root)
        /\ invoked = {}
        /\ groups = NoCalls /\ tasks = NoCalls

\* an empty chain whose declared type is not the root's was loaded
C8_Witness ==
    /\ phase = "loaded"
    /\ Len(loadID.Constructor) = 0
    /\ loadID # RootID
    /\ ret.ok

(***************************************************************************)
(* C9: whenever Load of a non-empty chain succeeds, the Object it returns  *)
(* carries exactly the ID given to Load, whatever the final field          *)
(* returned.                                                               *)
(***************************************************************************)
C9_LoadedObjectCarriesID ==
    (phase = "loaded" /\ Len(loadID.Constructor) > 0 /\ ret.ok) =>
        ret.val.id = loadID

\* the value found by following the chain's field names through the nested
\* result maps (Unset where a level is no map or lacks the name)
RECURSIVE Dig(_, _)
Dig(res, chain) ==
    IF chain = <<>> THEN res
    ELSE IF res.kind # "map" THEN Unset
    ELSE IF Head(chain).Field \notin DOMAIN res.m THEN Unset
    ELSE Dig(res.m[Head(chain).Field], Tail(chain))

\* what the Resolve called by Load stored, followed along the chain
FinalValue == Dig(Map(groups[<<>>].results), loadID.Constructor)

(***************************************************************************)
(* C9, amended: whenever Load of a non-empty chain succeeds and the value  *)
(* of the final field is not already an Object, the Object returned        *)
(* carries exactly the ID given to Load and wraps that value; a value      *)
(* that is already an Object is returned as it is, with the ID it has.     *)
(***************************************************************************)
C9_LoadedObjectCarriesIDUnlessObject ==
    (phase = "loaded" /\ Len(loadID.Constructor) > 0 /\ ret.ok) =>
        /\ <<>> \in DOMAIN groups
        /\ IsObject(FinalValue) => ret.val = FinalValue
        /\ ~IsObject(FinalValue) =>
              /\ IsObject(ret.val)
              /\ ret.val.id = loadID
              /\ ret.val.self = FinalValue

\* a chain of two selectors was loaded into a fresh object
C9_Witness ==
    /\ phase = "loaded"
    /\ Len(loadID.Constructor) = 2
    /\ ret.ok
    /\ ~IsObject(FinalValue)
    /\ ret.val.id = loadID

\* an element of the chain has an unknown type, field or argument, the chain
\* being followed from type through the declared return types
RECURSIVE ChainFault(_, _)
ChainFault(type, chain) ==
    IF chain = <<>> THEN FALSE
    ELSE \/ TypeName(type) \notin Classes
         \/ Head(chain).Field \notin DOMAIN Schema[TypeName(type)]
         \/ \E i \in DOMAIN Head(chain).Args :
               Head(chain).Args[i].Name
                   \notin DOMAIN Schema[TypeName(type)][Head(chain).Field].Arguments
         \/ ChainFault(Schema[TypeName(type)][Head(chain).Field].Type, Tail(chain))

(***************************************************************************)
(* C10: Load returns an error and no object when an element of the chain   *)
(* is applied to a type with no registered class, names a field the type   *)
(* reached there does not define, or carries an argument absent from that  *)
(* field's schema, and those failures come before any Resolve and any      *)
(* field invocation; it also returns an error and no object when the       *)
(* value resolved for the chain is not a Typed value.                      *)
(***************************************************************************)
C10_LoadFailsOnUnknown ==
    phase = "loaded" =>
        /\ ChainFault(T("Query", ""), loadID.Constructor) =>
              /\ ~ret.ok /\ ret.val = Nil /\ ret.err # NoErr
              /\ invoked = {} /\ made = {}
              /\ groups = NoCalls /\ tasks = NoCalls
        /\ (/\ Len(loadID.Constructor) > 0
            /\ <<>> \in DOMAIN groups
            /\ groups[<<>>].errs = <<>>
            /\ ~IsTyped(FinalValue)) =>
              ~ret.ok /\ ret.val = Nil /\ ret.err # NoErr

\* the second selector of a chain carries the fault and the first, whose
\* field is known, was not invoked
C10_Witness ==
    /\ phase = "loaded"
    /\ Len(loadID.Constructor) = 2
    /\ ~ChainFault(T("Query", ""), SubSeq(loadID.Constructor, 1, 1))
    /\ ChainFault(T("Query", ""), loadID.Constructor)
    /\ ~ret.ok
    /\ invoked = {}

\* the callers that run computeFn for digest d at this moment
Computing(d) == {c \in Callers : callers[c].pc = "computing" /\ callers[c].digest = d}

(***************************************************************************)
(* C11: single-flight memoization.  For any number of concurrent callers   *)
(* of GetOrCompute on one digest the compute function runs exactly once:   *)
(* at most one caller computes at a time, a computation is run once, a     *)
(* caller that waits waits for the one computation in flight and every     *)
(* caller returns the value or the error of the computation it joined; and *)
(* once a value is stored for a digest no computation is started for it    *)
(* again.                                                                  *)
(***************************************************************************)
C11_SingleFlight ==
    /\ \A d \in Digests : Cardinality(Computing(d)) <= 1
    /\ \A f \in DOMAIN flights :
          /\ flights[f].runs <= 1
          /\ flights[f].done <=> flights[f].runs = 1
          /\ ~flights[f].done =>
                /\ cache[flights[f].digest] = [st |-> "flight", flight |-> f]
                /\ Cardinality(Computing(flights[f].digest)) = 1
    /\ \A c \in Callers :
          /\ callers[c].pc = "waiting" =>
                /\ flights[callers[c].flight].digest = callers[c].digest
                /\ ~flights[callers[c].flight].done =>
                      cache[callers[c].digest].flight = callers[c].flight
          /\ callers[c].pc = "returned" =>
                /\ flights[callers[c].flight].digest = callers[c].digest
                /\ flights[callers[c].flight].done
                /\ callers[c].out = flights[callers[c].flight].out
    /\ \A f, g \in DOMAIN flights :
          (f < g /\ flights[f].digest = flights[g].digest) =>
              flights[f].done /\ ~flights[f].out.ok

\* every caller has the value of the one computation of a digest: one ran
\* it, one waited for it and one called later and found it stored
C11_Witness ==
    \E f \in DOMAIN flights :
        /\ flights[f].runs = 1
        /\ flights[f].out.ok
        /\ \A c \in Callers :
              /\ callers[c].pc = "returned"
              /\ callers[c].flight = f
              /\ callers[c].out = flights[f].out
        /\ \A h \in {"compute", "wait", "hit"} : \E c \in Callers : callers[c].how = h
        /\ \A g \in DOMAIN flights : g # f => flights[g].digest # flights[f].digest

(***************************************************************************)
(* C12: the class map can be read by the resolutions in flight while a     *)
(* registration is in progress without a data race: in no reachable state  *)
(* does a resolution read the class map while an install writes it.        *)
(***************************************************************************)
C12_NoRegistryRace ==
    /\ Reading = {} \/ Writing = {}
    /\ \A r \in Readers : ~readers[r].raced

\* the installs exclude one another: the lock is held by whoever writes
C12_InstallsExclusive ==
    /\ Cardinality({i \in Installers : installers[i].pc # "idle"}) <= 1
    /\ Writing # {} => installLock = "locked"

\* the result names of the selections are pairwise distinct
DistinctNames(ss) ==
    \A i, j \in DOMAIN ss : i # j => ResultName(ss[i]) # ResultName(ss[j])

(***************************************************************************)
(* C13: when Resolve succeeds on a sibling group whose result names are    *)
(* pairwise distinct, the map it returns has exactly one entry per         *)
(* selection, under that selection's result name and holding that          *)
(* selection's own result, and no other key.                               *)
(***************************************************************************)
C13_OneEntryPerSelection ==
    /\ \A g \in DOMAIN groups :
          (AllDone(g) /\ resolveReturn(groups[g]).ok /\ DistinctNames(groups[g].sels)) =>
              LET m == resolveReturn(groups[g]).val.m
                  ss == groups[g].sels
              IN  /\ DOMAIN m = {ResultName(ss[i]) : i \in DOMAIN ss}
                  /\ Cardinality(DOMAIN m) = Len(ss)
                  /\ \A i \in DOMAIN ss : m[ResultName(ss[i])] = tasks[Append(g, i)].out.val
    /\ (phase = "resolved" /\ ret.ok /\ DistinctNames(sels)) =>
          /\ ret.val.kind = "map"
          /\ DOMAIN ret.val.m = {ResultName(sels[i]) : i \in DOMAIN sels}
          /\ Cardinality(DOMAIN ret.val.m) = Len(sels)
          /\ \A i \in DOMAIN sels : ret.val.m[ResultName(sels[i])] = tasks[<<i>>].out.val

\* a query of three selections with distinct names, one of them aliased, has
\* returned its map
C13_Witness ==
    /\ phase = "resolved"
    /\ ret.ok
    /\ Len(sels) = 3
    /\ DistinctNames(sels)
    /\ \E i \in DOMAIN sels : sels[i].Alias # "" /\ sels[i].Alias # sels[i].Selector.Field
    /\ Cardinality({tasks[<<i>>].out.val : i \in DOMAIN sels}) = 3

(***************************************************************************)
(* The resolution of a sibling group by one goroutine that takes the       *)
(* selections in the order they are written, each to its end before the    *)
(* next: the schedule the outcomes of all other schedules are compared     *)
(* with.                                                                   *)
(***************************************************************************)
\* what resolvePath keeps of a step while the Resolve it called runs
Kept(step) == [n |-> step.n, chainedID |-> step.chainedID, val |-> step.val, acc |-> step.acc]

RECURSIVE RunGroup(_, _)
RECURSIVE RunFrom(_, _)
RECURSIVE RunStore(_, _, _)

\* resolvePath from a step to its return
RunFrom(sel, step) ==
    IF step.kind = "ret" THEN step.out
    ELSE RunFrom(sel, resumePath(sel, Kept(step), RunGroup(step.node, sel.Subselections)))

RunSel(self, sel) ==
    RunFrom(sel, resolvePath(self, sel, CHOOSE o \in Orders(sel.Selector.Args) : TRUE))

\* the selections from the i-th on, run and stored one after the other
RunStore(group, ss, i) ==
    IF i > Len(ss) THEN group
    ELSE RunStore(taskEnd(group, ss[i], RunSel(group.self, ss[i])), ss, i + 1)

RunGroup(self, ss) == resolveReturn(RunStore(NewGroup(self, ss), ss, 1))

\* in the group and in every group resolved below it the result names are
\* pairwise distinct and at most one selection fails
RECURSIVE Unambiguous(_, _)
RECURSIVE UnambiguousFrom(_, _)
UnambiguousFrom(sel, step) ==
    \/ step.kind = "ret"
    \/ /\ Unambiguous(step.node, sel.Subselections)
       /\ UnambiguousFrom(sel, resumePath(sel, Kept(step),
                                          RunGroup(step.node, sel.Subselections)))

Unambiguous(self, ss) ==
    /\ DistinctNames(ss)
    /\ Cardinality({i \in DOMAIN ss : ~RunSel(self, ss[i]).ok}) <= 1
    /\ \A i \in DOMAIN ss :
          UnambiguousFrom(ss[i], resolvePath(self, ss[i],
                                             CHOOSE o \in Orders(ss[i].Selector.Args) : TRUE))

(***************************************************************************)
(* C14: the outcome of Resolve does not depend on the schedule of the      *)
(* siblings.  For a group with distinct result names and deterministic     *)
(* fields, of which at most one selection fails, every interleaving gives  *)
(* the map, or the error, that resolving the selections one after the      *)
(* other gives.                                                            *)
(***************************************************************************)
C14_ScheduleIndependent ==
    (/\ phase = "resolved"
     /\ DistinctNames(sels)
     /\ Cardinality({i \in DOMAIN sels : ~tasks[<<i>>].out.ok}) <= 1) =>
        ret = RunGroup(Root, sels)

(***************************************************************************)
(* C14, amended: the same, for a group in which, and in every group of     *)
(* sub-selections resolved below which, the result names are pairwise      *)
(* distinct and at most one selection fails.                               *)
(***************************************************************************)
C14_ScheduleIndependentHereditary ==
    /\ (phase = "resolved" /\ Unambiguous(Root, sels)) => ret = RunGroup(Root, sels)
    /\ \A g \in DOMAIN groups :
          (AllDone(g) /\ Unambiguous(groups[g].self, groups[g].sels)) =>
              resolveReturn(groups[g]) = RunGroup(groups[g].self, groups[g].sels)

\* a query of three selections, the first of which failed last, has returned
\* the error of the sequential resolution
C14_Witness ==
    /\ phase = "resolved"
    /\ Len(sels) = 3
    /\ Unambiguous(Root, sels)
    /\ ~ret.ok
    /\ ~tasks[<<1>>].out.ok
    /\ Len(groups[<<>>].errs) = 1
    /\ DOMAIN groups[<<>>].results # {}
    /\ \E i \in DOMAIN sels : Len(sels[i].Subselections) > 0

\* the value a field returned, a Nullable unwrapped (null when absent)
Unwrapped(v) == IF IsNullable(v) THEN (IF v.ok THEN v.val ELSE Nil) ELSE v

\* the selection of task t has neither sub-selections nor an index, and its
\* field returned a value
LeafSelected(t) ==
    /\ KnownField(t)
    /\ FieldValue(t).ok
    /\ Len(SelOf(t).Subselections) = 0
    /\ SelOf(t).Selector.Nth = 0

(***************************************************************************)
(* C15: when a selection has no sub-selections and no index, its result is *)
(* exactly the value the field returned, a Nullable unwrapped: a list      *)
(* keeps its elements and their order, the value is not made into an       *)
(* Object and nothing is resolved below it.                                *)
(***************************************************************************)
C15_LeafIsFieldValue ==
    \A t \in DOMAIN tasks :
        (tasks[t].pc # "start" /\ LeafSelected(t)) =>
            /\ Returned(t)
            /\ tasks[t].res = Unwrapped(FieldValue(t).val)
            /\ tasks[t].out = Ok(Unwrapped(FieldValue(t).val))
            /\ GroupsBelow(t) = {} /\ Below(t) = {}
            /\ (tasks[t].pc = "done" /\ DistinctNames(GroupOf(t).sels)) =>
                  /\ ResultName(SelOf(t)) \in DOMAIN GroupOf(t).results
                  /\ GroupOf(t).results[ResultName(SelOf(t))] = Unwrapped(FieldValue(t).val)

\* the list [3, 1, 2] was selected without sub-selections and is stored as it is
C15_Witness ==
    \E t \in DOMAIN tasks :
        /\ LeafSelected(t)
        /\ tasks[t].pc = "done"
        /\ FieldValue(t).val.kind = "array"
        /\ Len(FieldValue(t).val.elems) = 3
        /\ FieldValue(t).val.elems[1].v > FieldValue(t).val.elems[2].v
        /\ GroupOf(t).results[ResultName(SelOf(t))].elems = FieldValue(t).val.elems

\* the selection of task t supplies an argument that the schema of its
\* field does not have
UnknownArgument(t) ==
    /\ KnownField(t)
    /\ \E a \in DOMAIN SelOf(t).Selector.Args :
          a \notin DOMAIN Schema[SelfOf(t).type][SelOf(t).Selector.Field].Arguments

(***************************************************************************)
(* C16: resolving a selection that supplies an argument whose name is not  *)
(* in the argument schema of the field fails with an "unknown argument"    *)
(* error, and the field is not invoked with that argument; a query that    *)
(* supplies one is answered with that error.                               *)
(***************************************************************************)
C16_UnknownArgumentFails ==
    /\ \A t \in DOMAIN tasks :
          (tasks[t].pc # "start" /\ UnknownArgument(t)) =>
              /\ Returned(t)
              /\ ~tasks[t].out.ok
              /\ \A i \in DOMAIN tasks[t].out.err : tasks[t].out.err[i].msg = "unknown argument"
              /\ \A i \in invoked : i.task # t
    /\ phase # "panicked"

\* the objects whose ID is the ID of the object of task t extended by the
\* field of its selection
MadeBy(t) ==
    {o \in made :
        /\ Len(o.id.Constructor) = Len(SelfOf(t).id.Constructor) + 1
        /\ SubSeq(o.id.Constructor, 1, Len(SelfOf(t).id.Constructor)) = SelfOf(t).id.Constructor
        /\ o.id.Constructor[Len(o.id.Constructor)].Field = SelOf(t).Selector.Field}

\* task t has failed with the one error msg, before Select and before the
\* ID of its object was extended
FailedEarly(t, msg) ==
    /\ Returned(t)
    /\ tasks[t].out = Fail(Err(msg))
    /\ \A i \in invoked : i.task # t
    /\ tasks[t].chainedID = NewTask.chainedID
    /\ MadeBy(t) = {}
    /\ GroupsBelow(t) = {} /\ Below(t) = {}

(***************************************************************************)
(* C17: resolving a selection on an object whose type has no registered    *)
(* class fails with an unknown-type error, and resolving a field that the  *)
(* class does not define fails with an unknown-field error; in both cases  *)
(* Select is not invoked on the object and no ID is extended.              *)
(***************************************************************************)
C17_UnknownTypeOrField ==
    \A t \in DOMAIN tasks :
        tasks[t].pc # "start" =>
            /\ SelfOf(t).type \notin Classes => FailedEarly(t, "unknown type")
            /\ (/\ SelfOf(t).type \in Classes
                /\ SelOf(t).Selector.Field \notin DOMAIN Schema[SelfOf(t).type])
                  => FailedEarly(t, "unknown field")

\* a sub-selection on an object of an unregistered type has failed, beside a
\* selection of a field the root does not define
C17_Witness ==
    /\ \E t \in DOMAIN tasks :
          /\ SelfOf(t).type \notin Classes
          /\ tasks[t].pc = "done"
          /\ tasks[t].out.err[1].msg = "unknown type"
    /\ \E t \in DOMAIN tasks :
          /\ SelfOf(t).type \in Classes
          /\ SelOf(t).Selector.Field \notin DOMAIN Schema[SelfOf(t).type]
          /\ Returned(t)
          /\ tasks[t].out.err[1].msg = "unknown field"

\* task t has run resolvePath up to the trailing index: res is computed
Computed(t) == Returned(t) /\ tasks[t].res # Unset

(***************************************************************************)
(* C18: when the Nth index of a selection is not zero, resolution returns  *)
(* the Nth element, counted from 1, of the finally computed result if that *)
(* result is Enumerable, and fails otherwise; when Nth is zero it returns  *)
(* the finally computed result without indexing.                           *)
(***************************************************************************)
C18_TrailingIndex ==
    \A t \in DOMAIN tasks :
        Computed(t) =>
            LET nth == SelOf(t).Selector.Nth
                res == tasks[t].res
            IN  /\ nth = 0 => tasks[t].out = Ok(res)
                /\ (nth # 0 /\ res.kind = "array" /\ nth \in 1..Len(res.elems))
                      => tasks[t].out = Ok(res.elems[nth])
                /\ (nth # 0 /\ res.kind = "array" /\ nth \notin 1..Len(res.elems))
                      => ~tasks[t].out.ok
                /\ (nth # 0 /\ res.kind # "array")
                      => tasks[t].out = Fail(Err("cannot sub-select nth item"))

\* the second element of a list has been returned for an index of 2
C18_Witness ==
    \E t \in DOMAIN tasks :
        /\ Computed(t)
        /\ SelOf(t).Selector.Nth = 2
        /\ tasks[t].res.kind = "array"
        /\ tasks[t].out.ok
        /\ tasks[t].out.val = tasks[t].res.elems[2]

\* task t asks for sub-selections of a field that is declared a list and
\* whose value is neither null nor Enumerable
ListButNotEnumerable(t) ==
    /\ KnownField(t)
    /\ Len(SelOf(t).Subselections) > 0
    /\ FieldDefinition(SelfOf(t).type, SelOf(t).Selector.Field).Type.NamedType = ""
    /\ LET r == Select(SelfOf(t), SelOf(t).Selector)
       IN  /\ r.ok
           /\ ~Unwrap(r.val).isNull
           /\ ~IsEnumerable(Unwrap(r.val).val)

(***************************************************************************)
(* C19: when sub-selections are requested on a field whose value is not    *)
(* null, whose declared type is not a named type and whose value cannot be *)
(* enumerated, resolution fails with a "cannot sub-select" error and       *)
(* resolves no sub-selection.                                              *)
(***************************************************************************)
C19_CannotSubselect ==
    \A t \in DOMAIN tasks :
        (tasks[t].pc # "start" /\ ListButNotEnumerable(t)) =>
            /\ Returned(t)
            /\ tasks[t].out = Fail(Err("cannot sub-select"))
            /\ GroupsBelow(t) = {} /\ Below(t) = {} /\ InvokedBelow(t) = {}

\* such a field has been resolved, its value fetched by Select
C19_Witness ==
    \E t \in DOMAIN tasks :
        /\ ListButNotEnumerable(t)
        /\ tasks[t].pc = "done"
        /\ \E i \in invoked : i.task = t

\* the arguments of an ID selector, as pairs of name and literal
IDArgs(selector) == {<<selector.Args[i].Name, selector.Args[i].Value>> : i \in DOMAIN selector.Args}

(***************************************************************************)
(* C20: the ID that appendToID produces for a field application has a      *)
(* chain equal to the parent's chain followed by exactly one selector;     *)
(* the selector carries the field name and the arguments of the selection, *)
(* its tainted flag is set iff the field definition has the tainted        *)
(* directive, its meta flag iff it has the meta directive, and the ID's    *)
(* type is the return type of the field.                                   *)
(***************************************************************************)
C20_AppendedID ==
    \A t \in DOMAIN tasks :
        tasks[t].pc = "wait" =>
            LET id == tasks[t].chainedID
                parent == SelfOf(t).id.Constructor
                sel == SelOf(t).Selector
                fieldDef == FieldDefinition(SelfOf(t).type, sel.Field)
            IN  /\ Len(id.Constructor) = Len(parent) + 1
                /\ SubSeq(id.Constructor, 1, Len(parent)) = parent
                /\ LET last == id.Constructor[Len(parent) + 1]
                   IN  /\ last.Field = sel.Field
                       /\ Len(last.Args) = Cardinality(DOMAIN sel.Args)
                       /\ IDArgs(last) = {<<n, ToLiteral(sel.Args[n])>> : n \in DOMAIN sel.Args}
                       /\ last.Tainted <=> "tainted" \in fieldDef.Directives
                       /\ last.Meta <=> "meta" \in fieldDef.Directives
                /\ id.Type = fieldDef.Type

\* a field with the meta directive and two arguments has been applied and
\* its ID computed
C20_Witness ==
    \E t \in DOMAIN tasks :
        /\ tasks[t].pc = "wait"
        /\ "meta" \in FieldDefinition(SelfOf(t).type, SelOf(t).Selector.Field).Directives
        /\ tasks[t].chainedID.Constructor[Len(tasks[t].chainedID.Constructor)].Meta
        /\ Cardinality(DOMAIN SelOf(t).Selector.Args) = 2

(***************************************************************************)
(* C21: extending an ID never mutates the parent.  After any number of     *)
(* sibling goroutines have extended the same parent ID, and while they do, *)
(* the parent's chain and type are what they were, and each extended ID    *)
(* holds the parent's selectors and its own one selector, never a selector *)
(* that another sibling appended.                                          *)
(***************************************************************************)
C21_ExtensionLeavesParent ==
    /\ \A e \in Extenders :
          extenders[e].pc # "idle" => IDValue(extenders[e].id) = extenders[e].before
    /\ \A r \in returned :
          r.id # 0 =>
              /\ IDValue(r.id) = r.before
              /\ Len(ChainOf(r.ptr)) = Len(r.before.Constructor) + 1
              /\ SubSeq(ChainOf(r.ptr), 1, Len(r.before.Constructor)) = r.before.Constructor
              /\ ChainOf(r.ptr)[Len(r.before.Constructor) + 1].Field = r.ext.sel.Field
              /\ idHeap[r.ptr].Type = r.ext.field.Type

\* two siblings have extended the same parent by different fields, the
\* parent itself an extended ID whose array had room for one selector more
C21_Witness ==
    \E r, q \in returned :
        /\ r.id # 0 /\ r.id = q.id /\ r.ptr # q.ptr
        /\ r.ext # q.ext
        /\ r.id # 1

\* the groups of sub-selections that tasks have started and that still run:
\* group g is resolved for the task Parent(g), on the value of its field
\* (Last(g) = 0) or on the element Last(g) of that value
ChildGroups == {g \in DOMAIN groups : g # <<>> /\ Parent(g) \in DOMAIN tasks}
\* the value the object of child group g was made from
ChildValue(g) ==
    IF Last(g) = 0 THEN tasks[Parent(g)].val ELSE tasks[Parent(g)].val.elems[Last(g)]
\* the ID of the object of child group g is the ID of the parent object
\* extended by the selector of the field, indexed at Last(g)
CarriesExtendedID(g) ==
    LET t == Parent(g)
        id == groups[g].self.id
        parent == SelfOf(t).id.Constructor
        fieldDef == FieldDefinition(SelfOf(t).type, SelOf(t).Selector.Field)
    IN  /\ Len(id.Constructor) = Len(parent) + 1
        /\ SubSeq(id.Constructor, 1, Len(parent)) = parent
        /\ id.Constructor[Len(parent) + 1].Field = SelOf(t).Selector.Field
        /\ id.Constructor[Len(parent) + 1].Nth = Last(g)
        /\ id.Type = T(TypeName(fieldDef.Type), "")

(***************************************************************************)
(* C22: when sub-selections are resolved against the value of an           *)
(* object-typed field, the child object carries the extended ID (the       *)
(* parent's chain and the selector of the field); when they are resolved   *)
(* against the k-th element of a list-typed field, the element's object    *)
(* carries the extended ID indexed at k, so that the elements of one list  *)
(* have distinct IDs.                                                      *)
(***************************************************************************)
C22_ChildCarriesExtendedID ==
    \A g \in ChildGroups : CarriesExtendedID(g)

(***************************************************************************)
(* C22, amended: the same, for a value or an element that is not already   *)
(* an Object; one that is already an Object is resolved against as it is,  *)
(* with the ID it has.                                                     *)
(***************************************************************************)
C22_ChildCarriesExtendedIDUnlessObject ==
    \A g \in ChildGroups :
        /\ ~IsObject(ChildValue(g)) =>
              /\ CarriesExtendedID(g)
              /\ groups[g].self.self = ChildValue(g)
        /\ IsObject(ChildValue(g)) => groups[g].self = ChildValue(g)

\* the second element of a list is being resolved, the first having been
\* made with an ID that differs from its ID in the index alone
C22_Witness ==
    \E g \in ChildGroups :
        /\ Last(g) = 2
        /\ ~IsObject(ChildValue(g))
        /\ \E o \in made :
              /\ o.id # groups[g].self.id
              /\ o.id = IDNth(tasks[Parent(g)].chainedID, 1)

\* Select has been invoked for task t
Invoked(t) == \E i \in invoked : i.task = t

(***************************************************************************)
(* C23: a failing sibling does not stop the others.  A selection that is   *)
(* started after another sibling has failed has its field invoked like any *)
(* other; when Resolve returns the failure, every selection of the group   *)
(* has been started and has finished, its field invoked, and the results   *)
(* of those that succeeded are discarded.                                  *)
(***************************************************************************)
C23_FailingSiblingStopsNoOne ==
    /\ \A t \in DOMAIN tasks :
          (tasks[t].late /\ tasks[t].pc # "start" /\ KnownField(t)) =>
              /\ Invoked(t)
              /\ Failed(t) => tasks[t].out.err[1].msg # "context canceled"
    /\ (phase = "resolved" /\ ~ret.ok) =>
          /\ \A t \in TasksOf(<<>>) :
                /\ tasks[t].pc = "done"
                /\ KnownField(t) => Invoked(t)
          /\ ret.val = Nil

\* Resolve has returned a failure; a sibling that was started after the
\* failure ran its field, succeeded and stored a result, which is discarded
C23_Witness ==
    /\ phase = "resolved"
    /\ ~ret.ok
    /\ \E t \in TasksOf(<<>>) :
          /\ tasks[t].late
          /\ tasks[t].out.ok
          /\ Invoked(t)
          /\ Name(SelOf(t)) \in DOMAIN groups[<<>>].results

\* the invocations of Select made for task t
InvocationsOf(t) == {i \in invoked : i.task = t}

(***************************************************************************)
(* C24: within one Resolve call, for each selection whose type and field   *)
(* are known, Select is invoked on the object exactly once: it is not      *)
(* invoked again after an error and it is not skipped because the same     *)
(* field was resolved on the same object before, so that the same          *)
(* selection resolved in two Resolve calls invokes the field twice.        *)
(***************************************************************************)
C24_SelectOncePerSelection ==
    \A t \in DOMAIN tasks :
        (tasks[t].pc # "start" /\ KnownField(t)) =>
            /\ Cardinality(InvocationsOf(t)) = 1
            /\ \A i \in InvocationsOf(t) :
                  i.self = SelfOf(t) /\ i.field = SelOf(t).Selector.Field

\* two Resolve calls on objects with the same ID have resolved the same
\* field, one of them after the other had finished, and the field has
\* failed for a third selection
C24_Witness ==
    /\ \E i, j \in invoked :
          /\ Parent(i.task) # Parent(j.task)
          /\ i.self = j.self /\ i.field = j.field
          /\ i.task \in DOMAIN tasks /\ tasks[i.task].pc = "done"
          /\ j.task \in DOMAIN tasks /\ tasks[j.task].pc = "done"
    /\ \E t \in DOMAIN tasks :
          tasks[t].pc = "done" /\ ~tasks[t].out.ok /\ Cardinality(InvocationsOf(t)) = 1

(***************************************************************************)
(* C25: fromLiteral on a list literal of n elements returns a sequence of  *)
(* exactly n typed values whose i-th value is the decoding of the i-th     *)
(* element, in the order of the literal; if the decoding of an element     *)
(* fails, the whole decoding fails and no partial list is returned.        *)
(***************************************************************************)
C25_ListDecodesElementwise ==
    (Decoded /\ litIn.lit = "List") =>
        LET each == [i \in DOMAIN litIn.v |-> fromLiteral(litIn.v[i], litType)]
        IN  IF \A i \in DOMAIN each : each[i].ok
            THEN /\ litOut.ok
                 /\ IsEnumerable(litOut.val)
                 /\ Len(litOut.val.elems) = Len(litIn.v)
                 /\ \A i \in DOMAIN each : litOut.val.elems[i] = each[i].val
            ELSE /\ ~litOut.ok
                 /\ litOut.val = Nil

\* a list of two literals that decode to different values has been decoded
C25_Witness ==
    /\ Decoded
    /\ litIn.lit = "List"
    /\ Len(litIn.v) = 2
    /\ litIn.v[1].lit = "Int" /\ litIn.v[1].v = 2
    /\ litIn.v[2].lit = "String_"
    /\ litOut.ok
    /\ litOut.val.elems[1] = Scalar("Int", 2)
    /\ litOut.val.elems[2].type = "String"

(***************************************************************************)
(* C26: fromLiteral returns an error and no value for every literal it     *)
(* cannot decode: an object literal always, an ID literal whose declared   *)
(* named type is empty or has no registered class, and an enum literal     *)
(* whose argument type has no registered scalar.                           *)
(***************************************************************************)
C26_UndecodableLiteralFails ==
    Decoded =>
        /\ litIn.lit = "Object" => litOut = Fail(Err("TODO: objects"))
        /\ (litIn.lit = "Id" /\ litIn.v.Type.NamedType = "")
              => litOut = Fail(Err("invalid ID"))
        /\ (litIn.lit = "Id" /\ litIn.v.Type.NamedType # ""
                             /\ litIn.v.Type.NamedType \notin Classes)
              => litOut = Fail(Err("unknown class"))
        /\ (litIn.lit = "Enum" /\ TypeName(litType) \notin Scalars)
              => litOut = Fail(Err("unknown scalar"))

\* an ID literal of a class that is not registered has been refused
C26_Witness ==
    /\ Decoded
    /\ litIn.lit = "Id"
    /\ litIn.v.Type.NamedType = "Ghost"
    /\ ~litOut.ok
    /\ litOut.val = Nil

(***************************************************************************)
(* C27: Resolve returns only after every sibling task it started has       *)
(* terminated, on success and on failure alike: once a Resolve has         *)
(* returned, to its caller or to the resolvePath that called it, no        *)
(* field invocation and no result store of its siblings is still to run.   *)
(***************************************************************************)
C27_ResolveWaitsForAll ==
    /\ [](phase \in {"resolved", "loaded"} =>
            \A t \in DOMAIN tasks : tasks[t].pc = "done")
    /\ [](\A t \in DOMAIN tasks :
            Returned(t) => (Below(t) = {} /\ GroupsBelow(t) = {}))
    /\ [][\A g \in DOMAIN groups :
              (phase' = phase /\ g \notin DOMAIN groups') =>
                  \A t \in TasksOf(g) : tasks[t].pc = "done"]_vars

\* Resolve has returned a map; one of its siblings had called Resolve for
\* the elements of a list, and another had no sub-selections
C27_Witness ==
    /\ phase = "resolved"
    /\ ret.ok
    /\ \E t, u \in TasksOf(<<>>) :
          /\ t # u
          /\ tasks[t].res.kind = "slice"
          /\ Len(tasks[t].res.elems) > 1
          /\ Len(SelOf(u).Subselections) = 0

\* task t asks for sub-selections of a field of a named type whose value is
\* already an Object
SubselectsObject(t) ==
    /\ KnownField(t)
    /\ Len(SelOf(t).Subselections) > 0
    /\ FieldDefinition(SelfOf(t).type, SelOf(t).Selector.Field).Type.NamedType # ""
    /\ LET r == Select(SelfOf(t), SelOf(t).Selector)
       IN  r.ok /\ ~Unwrap(r.val).isNull /\ IsObject(Unwrap(r.val).val)
\* that Object
SelectedObject(t) == Unwrap(Select(SelfOf(t), SelOf(t).Selector).val).val

(***************************************************************************)
(* C28: when the value to materialize is already an Object, toSelectable   *)
(* returns it unchanged: it does not get the extended ID, nor the ID given *)
(* to Load, and no class is looked up for it, so that it cannot fail with  *)
(* an unknown type.                                                        *)
(***************************************************************************)
C28_ObjectPassesThrough ==
    /\ \A t \in DOMAIN tasks :
          (tasks[t].pc # "start" /\ SubselectsObject(t)) =>
              /\ tasks[t].pc = "wait" => groups[Append(t, 0)].self = SelectedObject(t)
              /\ Failed(t) =>
                    \A i \in DOMAIN tasks[t].out.err :
                        tasks[t].out.err[i].path # <<"instantiate">>
              /\ MadeBy(t) = {}
    /\ (/\ phase = "loaded"
        /\ <<>> \in DOMAIN groups
        /\ groups[<<>>].errs = <<>>
        /\ IsObject(FinalValue))
          => ret = Ok(FinalValue)

\* the sub-selections of a field are being resolved against the Object the
\* field returned, whose type has no class and whose ID is not the extended ID
C28_Witness ==
    \E t \in DOMAIN tasks :
        /\ SubselectsObject(t)
        /\ tasks[t].pc = "wait"
        /\ SelectedObject(t).type \notin Classes
        /\ groups[Append(t, 0)].self.id # tasks[t].chainedID

\* the field of task t is known and returns an absent Nullable
ReturnsNull(t) ==
    /\ KnownField(t)
    /\ LET r == Select(SelfOf(t), SelOf(t).Selector)
       IN  r.ok /\ Unwrap(r.val).isNull

(***************************************************************************)
(* C29: when a selection has an Nth index that is not zero and its field   *)
(* returns an absent Nullable, resolution fails with a cannot-sub-select   *)
(* error and does not return the null result: the null short-circuit       *)
(* holds for the sub-selections, not for the trailing index.               *)
(***************************************************************************)
C29_NullIsIndexed ==
    \A t \in DOMAIN tasks :
        (tasks[t].pc # "start" /\ ReturnsNull(t) /\ SelOf(t).Selector.Nth # 0) =>
            /\ Returned(t)
            /\ tasks[t].res = Nil
            /\ tasks[t].out = Fail(Err("cannot sub-select nth item"))
            /\ GroupsBelow(t) = {} /\ Below(t) = {}

\* a selection with an index, whose field returned an absent Nullable, has
\* failed and its error has reached the pool
C29_Witness ==
    \E t \in DOMAIN tasks :
        /\ ReturnsNull(t)
        /\ SelOf(t).Selector.Nth # 0
        /\ tasks[t].pc = "done"
        /\ ~tasks[t].out.ok
        /\ groups[Parent(t)].errs # <<>>

=============================================================================
